---- MODULE Spec2Model ----
(***************************************************************************)
(* State machine of the SOL auto screener's deduplication store            *)
(* (src/src/state.py), expectation fusion (src/src/expectation.py), bot    *)
(* detector, holder analysis and mania scores (src/src/mania.py), safety   *)
(* check (src/src/safety.py), screening cycle and daemon (src/main.py).    *)
(*                                                                         *)
(* Units: time is in whole seconds since an arbitrary epoch; scores are    *)
(* fixed-point numbers in hundredths (4000 is the score 40.0).             *)
(***************************************************************************)
EXTENDS Integers, Sequences, FiniteSets, TLC

VARIABLES
    now,          \* the wall clock, datetime.now(timezone.utc), in seconds
    ticks,        \* how many times the clock has advanced (bounded)
    notified,     \* StateManager.state["notified"]: a dict, as a set of entries
    history,      \* StateManager.history["scans"]: a list of scan records
    diskState,    \* content of data/state.json
    diskHistory,  \* content of data/history.json
    lastOp,       \* name of the last store operation that ran
    lastArg,      \* its argument (a list of projects)
    lastRes,      \* its return value
    pre,          \* state["notified"] as it was when that operation started
    lastMark,     \* per address: time and score of its latest mark_notified,
                  \* and whether that was a re-notification at a later time
    nScans,       \* how many save_scan calls have run
    savedLog,     \* every scan record ever passed to history, in call order
    evIn,         \* the arguments of ExpectationCalculator.calculate
    evOut,        \* the ExpectationValue it returned (Idle before the call)
    botIn,        \* twitter_raw, the argument of BotDetector.analyze
    botOut,       \* the result it returned (NotAnalyzed before the call)
    pc,           \* where run_screening_cycle stands
    top,          \* the cycle's scored top-N list
    newProjects,  \* the cycle's new_projects, what filter_new returned
    scoreChanges, \* the cycle's score_changes
    snap,         \* the store and its files as they were when the cycle started
    failedAt,     \* the await at which the cycle was abandoned, if it was
    cycles,       \* how many cycles have started (bounded)
    jobs,         \* daemon mode: per screening-cycle task, where it stands and
                  \* its own top and new_projects
    boot,         \* how the last construction of StateManager ended, and what
                  \* the process held in memory before it
    holdersIn,    \* what the two holder fetches of SmartMoneyAnalyzer answer
    holdersOut,   \* the result of SmartMoneyAnalyzer.analyze
    safetyIn,     \* what the RugCheck fetch of SafetyChecker answers
    safetyOut,    \* the result of SafetyChecker.check
    proj,         \* the project p that Step 3 and Step 6 work on: its
                  \* total_score, its scores dict and the step it has passed
    cand,         \* Step 3 over the whole top list: the candidates, the index
                  \* of the loop and how far the step has come
    mon           \* run_realtime_monitor: the LiquidityMonitor of the current
                  \* run, the tokens it watches and the alerts it collected

storeVars == <<now, ticks, notified, history, diskState, diskHistory,
               lastOp, lastArg, lastRes, pre, lastMark, nScans, savedLog>>

evVars == <<evIn, evOut>>

botVars == <<botIn, botOut>>

cycleVars == <<pc, top, newProjects, scoreChanges, snap, failedAt, cycles>>

holderVars == <<holdersIn, holdersOut>>

safetyVars == <<safetyIn, safetyOut>>

lateVars == <<cand, mon>>

moreVars == <<jobs, boot, holderVars, safetyVars, proj, lateVars>>

nonStoreVars == <<evVars, botVars, cycleVars, moreVars>>

vars == <<storeVars, evVars, botVars, cycleVars, moreVars>>

None == "None"

\* ------------------------------------------------------------------------
\* Bounds of the model
\* ------------------------------------------------------------------------
MaxTicks == 3
MaxLen == 2
MaxScans == 102

\* ------------------------------------------------------------------------
\* Program constants
\* ------------------------------------------------------------------------
DedupHours == 24
RetentionDays == 7
HistoryCap == 100

DedupWindow == DedupHours * 3600
Retention == RetentionDays * 86400

\* ------------------------------------------------------------------------
\* Inputs
\* ------------------------------------------------------------------------
Addrs == {"a1", "a2"}
\* Projects as the scorer hands them over: a1 scored 40.0 or 55.0, a2 scored 40.0
Project == {[token_address |-> "a1", total_score |-> 4000],
            [token_address |-> "a1", total_score |-> 5500],
            [token_address |-> "a2", total_score |-> 4000]}

\* How far the clock may jump between two operations: one second, one hour,
\* one second short of the dedup window, and 6 days 23 hours.
Steps == {1, 3600, DedupWindow - 1, Retention - 3600}

Distinct(s) == \A i, j \in 1..Len(s) : i # j => s[i].token_address # s[j].token_address

\* The candidate lists of a cycle: the scanner's output has one project per
\* token address.
ProjectLists == {s \in UNION {[1..n -> Project] : n \in 0..MaxLen} : Distinct(s)}

\* ------------------------------------------------------------------------
\* Timestamps: datetime.isoformat() / datetime.fromisoformat()
\* ------------------------------------------------------------------------
isoformat(t) == <<t \div 86400, (t % 86400) \div 3600, (t % 3600) \div 60, t % 60>>

fromisoformat(s) == s[1] * 86400 + s[2] * 3600 + s[3] * 60 + s[4]

\* ------------------------------------------------------------------------
\* The notified dict: entries [addr, score, last_notified], keyed by addr
\* ------------------------------------------------------------------------
HasKey(d, k) == \E e \in d : e.addr = k

Get(d, k) == CHOOSE e \in d : e.addr = k

DictSetAppend(d, k, score, stamp) ==
    d \cup {[addr |-> k, score |-> score, last_notified |-> stamp]}

\* d[k] = {...}: assignment replaces the entry of an existing key
DictSet(d, k, score, stamp) ==
    {e \in d : e.addr # k} \cup {[addr |-> k, score |-> score, last_notified |-> stamp]}

\* ------------------------------------------------------------------------
\* StateManager.filter_new: the loop over projects, keeping a project unless
\* its address has an entry notified less than 24 hours before `clock`
\* ------------------------------------------------------------------------
RECURSIVE filter_new_inverted(_, _, _, _)
filter_new_inverted(d, projects, i, clock) ==
    IF i > Len(projects) THEN <<>>
    ELSE LET p == projects[i]
             skip == /\ HasKey(d, p.token_address)
                     /\ clock - fromisoformat(Get(d, p.token_address).last_notified) >= DedupWindow
         IN  (IF skip THEN <<>> ELSE <<p>>) \o filter_new_inverted(d, projects, i + 1, clock)

RECURSIVE filter_new_le(_, _, _, _)
filter_new_le(d, projects, i, clock) ==
    IF i > Len(projects) THEN <<>>
    ELSE LET p == projects[i]
             skip == /\ HasKey(d, p.token_address)
                     /\ clock - fromisoformat(Get(d, p.token_address).last_notified) <= DedupWindow
         IN  (IF skip THEN <<>> ELSE <<p>>) \o filter_new_le(d, projects, i + 1, clock)

RECURSIVE filter_new_loop(_, _, _, _)
filter_new_loop(d, projects, i, clock) ==
    IF i > Len(projects) THEN <<>>
    ELSE LET p == projects[i]
             skip == /\ HasKey(d, p.token_address)
                     /\ clock - fromisoformat(Get(d, p.token_address).last_notified) < DedupWindow
         IN  (IF skip THEN <<>> ELSE <<p>>) \o filter_new_loop(d, projects, i + 1, clock)

filter_new(d, projects, clock) == filter_new_loop(d, projects, 1, clock)

\* ------------------------------------------------------------------------
\* StateManager.mark_notified: upsert one entry per project, stamped with the
\* call's time, then _cleanup_old_entries
\* ------------------------------------------------------------------------
RECURSIVE mark_loop(_, _, _, _)
mark_loop(d, projects, i, stamp) ==
    IF i > Len(projects) THEN d
    ELSE mark_loop(DictSet(d, projects[i].token_address, projects[i].total_score, stamp),
                   projects, i + 1, stamp)

_cleanup_old_entries_ge(d, clock) ==
    {e \in d : fromisoformat(e.last_notified) >= clock - Retention}

_cleanup_old_entries_none(d, clock) == d

\* keeps the entries notified after the cutoff (now - 7 days)
_cleanup_old_entries(d, clock) ==
    {e \in d : fromisoformat(e.last_notified) > clock - Retention}

mark_notified_sweep_only(d, projects, clock) == _cleanup_old_entries(d, clock)

mark_notified(d, projects, clock) ==
    _cleanup_old_entries(mark_loop(d, projects, 1, isoformat(clock)), clock)

\* ------------------------------------------------------------------------
\* StateManager._save: writes the document; an error is logged and swallowed.
\* The file then holds the document (written), what it held before (open
\* failed) or a truncated text that is no JSON (the write failed part-way).
\* ------------------------------------------------------------------------
\* json.dump / json.load of a number: the text of a score is its integer part
\* and its decimals (40.0 is the text "40.0")
json_number_int(h) == [int |-> h \div 100, frac |-> 0]

json_number(h) == [int |-> h \div 100, frac |-> h % 100]

json_number_load(t) == t.int * 100 + t.frac

\* json.dump / json.load of {"notified": {address: {score, last_notified}}}:
\* an object with one member per key
dumps_state(d) ==
    {[key |-> e.addr, score |-> json_number(e.score), last_notified |-> e.last_notified] :
        e \in d}

loads_state(doc) ==
    {[addr |-> m.key, score |-> json_number_load(m.score),
      last_notified |-> m.last_notified] : m \in doc}

\* json.dump / json.load of {"scans": [{timestamp, count, top: [...]}]}
dumps_history(h) ==
    [i \in 1..Len(h) |->
        [timestamp |-> h[i].timestamp, count |-> h[i].count,
         top |-> [k \in 1..Len(h[i].top) |->
                     [address |-> h[i].top[k].address,
                      score |-> json_number(h[i].top[k].score)]]]]

loads_history(doc) ==
    [i \in 1..Len(doc) |->
        [timestamp |-> doc[i].timestamp, count |-> doc[i].count,
         top |-> [k \in 1..Len(doc[i].top) |->
                     [address |-> doc[i].top[k].address,
                      score |-> json_number_load(doc[i].top[k].score)]]]]

\* A file: kind is "json" (doc is the text of a document), "missing",
\* "corrupt" (a text that is no JSON) or "unreadable" (open or the decoding of
\* its bytes raises an error other than FileNotFoundError); `empty` is the
\* empty document of the file's type, the doc of a file without one.
JsonFile(data) == [kind |-> "json", doc |-> data]
MissingFile(empty) == [kind |-> "missing", doc |-> empty]
CorruptFile(empty) == [kind |-> "corrupt", doc |-> empty]
UnreadableFile(empty) == [kind |-> "unreadable", doc |-> empty]

_save(old, data, empty) == {JsonFile(data), old, CorruptFile(empty)}

\* the outcome of _save when open() and json.dump() raise nothing
_save_written(data) == JsonFile(data)

\* ------------------------------------------------------------------------
\* StateManager.get_score_changes: address -> {prev, diff}
\* ------------------------------------------------------------------------
\* the integer nearest to num / den (den > 0), ties to the even one: round()
round_half_even(num, den) ==
    LET q == num \div den
        r == num % den
    IN  IF 2 * r < den THEN q
        ELSE IF 2 * r > den THEN q + 1
        ELSE IF q % 2 = 0 THEN q ELSE q + 1

\* round(x, 1) of x given in hundredths, in hundredths
round1(h) == 10 * round_half_even(h, 10)

KeysOf(projects) == {projects[i].token_address : i \in 1..Len(projects)}

\* the last project of the list with this address (a later dict assignment
\* overwrites an earlier one)
LastWith(projects, a) ==
    projects[CHOOSE i \in 1..Len(projects) :
                 /\ projects[i].token_address = a
                 /\ \A j \in (i + 1)..Len(projects) : projects[j].token_address # a]

get_score_changes_flipped(d, projects) ==
    [a \in KeysOf(projects) |->
        IF HasKey(d, a)
        THEN [prev |-> Get(d, a).score,
              diff |-> round1(Get(d, a).score - LastWith(projects, a).total_score)]
        ELSE [prev |-> None, diff |-> None]]

get_score_changes(d, projects) ==
    [a \in KeysOf(projects) |->
        IF HasKey(d, a)
        THEN [prev |-> Get(d, a).score,
              diff |-> round1(LastWith(projects, a).total_score - Get(d, a).score)]
        ELSE [prev |-> None, diff |-> None]]

\* ------------------------------------------------------------------------
\* StateManager.save_scan: append the record, keep the last 100
\* ------------------------------------------------------------------------
slice_last(s, n) == IF Len(s) > n THEN SubSeq(s, Len(s) - n + 1, Len(s)) ELSE s

scan_record(projects, clock) ==
    [timestamp |-> isoformat(clock),
     count |-> Len(projects),
     top |-> [i \in 1..Len(projects) |->
                 [address |-> projects[i].token_address, score |-> projects[i].total_score]]]

save_scan_first(h, projects, clock) ==
    LET appended == Append(h, scan_record(projects, clock))
    IN  IF Len(appended) > HistoryCap THEN SubSeq(appended, 1, HistoryCap) ELSE appended

save_scan(h, projects, clock) ==
    LET appended == Append(h, scan_record(projects, clock))
    IN  IF Len(appended) > HistoryCap THEN slice_last(appended, HistoryCap) ELSE appended

\* ------------------------------------------------------------------------
\* Initial state: StateManager() with no data files
\* ------------------------------------------------------------------------
\* the ghost of an address mark_notified has never been called with
NeverMarked == [time |-> -1, score |-> -1, again |-> FALSE]

InitStore ==
    /\ now = 0
    /\ ticks = 0
    /\ notified = {}
    /\ history = <<>>
    /\ diskState = MissingFile({})
    /\ diskHistory = MissingFile(<<>>)
    /\ lastOp = "init"
    /\ lastArg = <<>>
    /\ lastRes = None
    /\ pre = {}
    /\ lastMark = [a \in Addrs |-> NeverMarked]
    /\ nScans = 0
    /\ savedLog = <<>>

\* no call of calculate or analyze yet
Idle == [heat_level |-> 0]
NoInput == [total_score |-> 0]
NotAnalyzed == [bot_score |-> -1]
NoProfile == [followers |-> 0]

InitEVIdle ==
    /\ evIn = NoInput
    /\ evOut = Idle

InitBotIdle ==
    /\ botIn = NoProfile
    /\ botOut = NotAnalyzed

\* no screening cycle is running
InitCycleIdle ==
    /\ pc = "idle"
    /\ top = <<>>
    /\ newProjects = <<>>
    /\ scoreChanges = <<>>
    /\ snap = <<{}, <<>>, MissingFile({}), MissingFile(<<>>)>>
    /\ failedAt = "none"
    /\ cycles = 0

\* daemon mode: the tasks that run run_screening_cycle (src/main.py:361-364, 383)
JobIds == {"startup", "morning", "interval"}

JobIdle == [pc |-> "idle", top |-> <<>>, scoreChanges |-> <<>>, newProjects |-> <<>>]

InitJobsIdle == jobs = [j \in JobIds |-> JobIdle]

\* StateManager() returned. `notified` and `history` are what the process
\* before it held in memory and `was_lost` tells whether the files had fallen
\* behind that memory; `write_failed` and `damaged` tell whether a _save of
\* this process has failed and whether a file was damaged from outside since;
\* `writes` counts the _save calls and `boots` the constructions so far.
Booted(mem_notified, mem_history, lost, n) ==
    [status |-> "ok", notified |-> mem_notified, history |-> mem_history,
     was_lost |-> lost, write_failed |-> FALSE, damaged |-> FALSE,
     writes |-> 0, boots |-> n]

\* the process was started with no data files
InitBootIdle == boot = Booted({}, <<>>, FALSE, 1)

\* no call of SmartMoneyAnalyzer.analyze or SafetyChecker.check yet
NoFetch == [key |-> FALSE]
NoHolderResult == [holder_quality |-> -1]
NoReport == [kind |-> "none"]
NotChecked == [risk_level |-> "none"]

InitHoldersIdle ==
    /\ holdersIn = NoFetch
    /\ holdersOut = NoHolderResult

InitSafetyIdle ==
    /\ safetyIn = NoReport
    /\ safetyOut = NotChecked

\* no project has been scored
NoProject == [total_score |-> 0, scores |-> {}, step |-> "none"]

InitProjectIdle == proj = NoProject

NoCandidates == [list |-> <<>>, i |-> 0, phase |-> "idle"]

NoMonitor ==
    [watch_tokens |-> <<>>, prev_liquidity |-> {}, i |-> 0, alerts |-> <<>>,
     phase |-> "idle", runs |-> 0, seen |-> {}]

InitLateIdle == cand = NoCandidates /\ mon = NoMonitor

InitMoreIdle ==
    /\ InitJobsIdle
    /\ InitBootIdle
    /\ InitHoldersIdle
    /\ InitSafetyIdle
    /\ InitProjectIdle
    /\ InitLateIdle

Init ==
    /\ InitStore
    /\ InitEVIdle
    /\ InitBotIdle
    /\ InitCycleIdle
    /\ InitMoreIdle

\* ------------------------------------------------------------------------
\* Actions of the store
\* ------------------------------------------------------------------------
\* time passes between two operations
TickBy(steps) ==
    /\ ticks < MaxTicks
    /\ \E d \in steps : now' = now + d
    /\ ticks' = ticks + 1
    /\ lastOp' = "tick"
    /\ lastArg' = <<>>
    /\ lastRes' = None
    /\ pre' = notified
    /\ UNCHANGED <<notified, history, diskState, diskHistory, lastMark, nScans, savedLog>>
    /\ UNCHANGED nonStoreVars

Tick == TickBy(Steps)

CallFilterNew ==
    \E ps \in ProjectLists :
        /\ lastOp' = "filter_new"
        /\ lastArg' = ps
        /\ lastRes' = filter_new(notified, ps, now)
        /\ pre' = notified
        /\ UNCHANGED <<now, ticks, notified, history, diskState, diskHistory,
                       lastMark, nScans, savedLog>>
        /\ UNCHANGED nonStoreVars

CallGetScoreChanges ==
    \E ps \in ProjectLists :
        /\ lastOp' = "get_score_changes"
        /\ lastArg' = ps
        /\ lastRes' = get_score_changes(notified, ps)
        /\ pre' = notified
        /\ UNCHANGED <<now, ticks, notified, history, diskState, diskHistory,
                       lastMark, nScans, savedLog>>
        /\ UNCHANGED nonStoreVars

MarkGhost(lm, ps, clock) ==
    [a \in Addrs |->
        IF a \in KeysOf(ps)
        THEN [time |-> clock, score |-> LastWith(ps, a).total_score,
              again |-> lm[a].time >= 0 /\ (lm[a].again \/ lm[a].time < clock)]
        ELSE lm[a]]

\* mark_notified whose _save writes the file. The store never reads the file
\* back after construction, so the in-memory map does not depend on the
\* outcome of the write.
CallMarkNotified ==
    \E ps \in ProjectLists :
        /\ notified' = mark_notified(notified, ps, now)
        /\ diskState' = _save_written(dumps_state(notified'))
        /\ lastOp' = "mark_notified"
        /\ lastArg' = ps
        /\ lastRes' = None
        /\ pre' = notified
        /\ lastMark' = MarkGhost(lastMark, ps, now)
        /\ UNCHANGED <<now, ticks, history, diskHistory, nScans, savedLog>>
        /\ UNCHANGED nonStoreVars

\* save_scan of a given list; _save may fail
SaveScanOf(ps) ==
    /\ history' = save_scan(history, ps, now)
    /\ diskHistory' \in _save(diskHistory, dumps_history(history'), <<>>)
    /\ nScans' = nScans + 1
    /\ savedLog' = Append(savedLog, scan_record(ps, now))
    /\ lastOp' = "save_scan"
    /\ lastArg' = ps
    /\ lastRes' = None
    /\ pre' = notified
    /\ UNCHANGED <<now, ticks, notified, diskState, lastMark>>
    /\ UNCHANGED nonStoreVars

\* The n-th scan of a long run carries one project whose score is n, so that
\* every record of the history differs from the others.
ScanInput(n) == <<[token_address |-> "a1", total_score |-> n]>>

CallSaveScan ==
    /\ nScans < MaxScans
    /\ SaveScanOf(ScanInput(nScans + 1))

Next ==
    \/ Tick
    \/ CallFilterNew
    \/ CallGetScoreChanges
    \/ CallMarkNotified

Spec == Init /\ [][Next]_vars

\* A long run of save_scan calls
NextHistory == CallSaveScan

SpecHistory == Init /\ [][NextHistory]_vars

\* ========================================================================
\* Claims about the store, checked under Spec
\* ========================================================================
Range(s) == {s[i] : i \in 1..Len(s)}

Age(e) == now - fromisoformat(e.last_notified)

Marked(a) == lastMark[a].time >= 0

MarkedWithin(a, window) == Marked(a) /\ now - lastMark[a].time < window

\* C1: once every candidate of a list has been marked notified, filter_new of
\* that list returns the empty list as long as less than 24 hours have passed
\* since the mark.
C1_IdempotentSuppression ==
    (/\ lastOp = "filter_new"
     /\ \A a \in KeysOf(lastArg) : MarkedWithin(a, DedupWindow))
    => lastRes = <<>>

\* a two-project list, both marked by one call 24 hours less one second ago,
\* is filtered to nothing
C1_Witness ==
    /\ lastOp = "filter_new"
    /\ Len(lastArg) = 2
    /\ \A a \in KeysOf(lastArg) : Marked(a) /\ now - lastMark[a].time = DedupWindow - 1
    /\ lastRes = <<>>

\* C2: filter_new returns exactly the subsequence, in input order, of the
\* candidates without a stored record or whose record is 24 hours old or older.
C2_Passes(p) == \A e \in notified : e.addr = p.token_address => Age(e) >= DedupWindow

C2_FilterNewExact ==
    lastOp = "filter_new" => lastRes = SelectSeq(lastArg, C2_Passes)

\* of two candidates the first is suppressed by a younger record and the
\* second passes with a record exactly 24 hours old
C2_Witness ==
    /\ lastOp = "filter_new"
    /\ Len(lastArg) = 2
    /\ lastRes = <<lastArg[2]>>
    /\ \E e \in notified : e.addr = lastArg[2].token_address /\ Age(e) = DedupWindow
    /\ \E e \in notified : e.addr = lastArg[1].token_address /\ Age(e) < DedupWindow

\* C3: right after mark_notified no record is 7 days old or older, every
\* record younger than 7 days is still there, and every marked address has a
\* record: 7 days + 1 second is purged, 6 days 23 hours survives.
C3_RetentionSweep ==
    lastOp = "mark_notified" =>
        /\ \A e \in notified : Age(e) < Retention
        /\ \A e \in pre : (e.addr \notin KeysOf(lastArg) /\ Age(e) < Retention) => e \in notified
        /\ \A a \in KeysOf(lastArg) : HasKey(notified, a)
        /\ \A e \in pre : (e.addr \notin KeysOf(lastArg) /\ Age(e) = Retention + 1) => e \notin notified
        /\ \A e \in pre : (e.addr \notin KeysOf(lastArg) /\ Age(e) = Retention - 3600) => e \in notified

\* a mark_notified with an empty list purges a record 7 days + 1 second old
\* and keeps one 6 days 23 hours old
C3_Witness ==
    /\ lastOp = "mark_notified"
    /\ lastArg = <<>>
    /\ \E e \in pre : Age(e) = Retention + 1 /\ e \notin notified
    /\ \E e \in pre : Age(e) = Retention - 3600 /\ e \in notified

\* C5: the notified map has at most one record per address; a record's
\* timestamp is that of the latest mark_notified of its address, and it is
\* from that time that filter_new counts 24 hours and the sweep 7 days.
C5_OneRecordAgeFromLastMark ==
    /\ \A e1, e2 \in notified : e1.addr = e2.addr => e1 = e2
    /\ \A e \in notified :
           Marked(e.addr) /\ fromisoformat(e.last_notified) = lastMark[e.addr].time
    /\ lastOp = "filter_new" =>
           \A i \in 1..Len(lastArg) :
               lastArg[i] \notin Range(lastRes)
                   <=> MarkedWithin(lastArg[i].token_address, DedupWindow)
    /\ lastOp = "mark_notified" =>
           \A a \in Addrs : HasKey(notified, a) <=> MarkedWithin(a, Retention)

\* an address notified a second time 24 hours or more after the model's
\* start is suppressed, its window counted from the second notification
C5_Witness ==
    /\ lastOp = "filter_new"
    /\ \E i \in 1..Len(lastArg) :
           LET m == lastMark[lastArg[i].token_address]
           IN  /\ m.again
               /\ m.time >= DedupWindow
               /\ now > m.time
               /\ lastArg[i] \notin Range(lastRes)

\* C6: get_score_changes reports, per candidate, the score stored by the
\* latest mark_notified of the address and the current score minus it, whatever
\* the record's age, and {None, None} without a record; a candidate notified
\* at 40 and re-scored at 55 within 24 hours is filtered out while the
\* get_score_changes before the filter reports +15.
C6_Scenario(res, changes) ==
    \A i \in 1..Len(lastArg) :
        (/\ lastArg[i].total_score = 5500
         /\ Marked(lastArg[i].token_address)
         /\ lastMark[lastArg[i].token_address].score = 4000
         /\ MarkedWithin(lastArg[i].token_address, DedupWindow))
        => /\ lastArg[i] \notin Range(res)
           /\ changes[lastArg[i].token_address] = [prev |-> 4000, diff |-> 1500]

C6_ScoreChanges ==
    /\ lastOp = "get_score_changes" =>
           /\ DOMAIN lastRes = KeysOf(lastArg)
           /\ \A i \in 1..Len(lastArg) :
                  LET p == lastArg[i]
                      a == p.token_address
                  IN  IF HasKey(notified, a)
                      THEN /\ Marked(a)
                           /\ lastRes[a].prev = lastMark[a].score
                           /\ lastRes[a].diff = p.total_score - lastMark[a].score
                      ELSE lastRes[a] = [prev |-> None, diff |-> None]
    \* filter_new runs on the store get_score_changes has just read (pre)
    /\ lastOp = "filter_new" => C6_Scenario(lastRes, get_score_changes(pre, lastArg))

\* the scenario: notified at 40.0, re-scored at 55.0 one hour later
C6_Witness ==
    /\ lastOp = "filter_new"
    /\ \E i \in 1..Len(lastArg) :
           /\ lastArg[i].total_score = 5500
           /\ Marked(lastArg[i].token_address)
           /\ lastMark[lastArg[i].token_address].score = 4000
           /\ now - lastMark[lastArg[i].token_address].time = 3600
           /\ lastArg[i] \notin Range(lastRes)
           /\ get_score_changes(pre, lastArg)[lastArg[i].token_address].diff = 1500

\* ========================================================================
\* Claims about the scan history, checked under SpecHistory
\* ========================================================================
Min(a, b) == IF a < b THEN a ELSE b

\* C4: after n save_scan calls from an empty history, the history is the last
\* min(n, 100) records passed, in call order; it never holds more than 100,
\* and the 101st call evicts the first record.
C4_HistoryRing ==
    /\ Len(savedLog) = nScans
    /\ Len(history) = Min(nScans, HistoryCap)
    /\ Len(history) <= HistoryCap
    /\ \A i \in 1..Len(history) : history[i] = savedLog[nScans - Len(history) + i]
    /\ nScans = HistoryCap + 1 =>
           /\ savedLog[1] \notin Range(history)
           /\ history[1] = savedLog[2]

\* the 101st save_scan has run
C4_Witness ==
    /\ lastOp = "save_scan"
    /\ nScans = HistoryCap + 1
    /\ Len(history) = HistoryCap
    /\ history[HistoryCap] = savedLog[HistoryCap + 1]
    /\ savedLog[1] \notin Range(history)

\* ========================================================================
\* ExpectationCalculator.calculate (src/src/expectation.py)
\*
\* Scores are in hundredths; confidence is returned in tenths (round(c, 1));
\* position_pct is in hundredths of a percent. The Japanese labels are
\* written in Latin letters. An optional number is [has, val].
\* ========================================================================
Absent == "absent"
NoNumber == [has |-> FALSE, val |-> 0]
Number(v) == [has |-> TRUE, val |-> v]

POSITION_TABLE(heat) ==
    CASE heat = 5 -> [pct |-> 1000, label |-> "tsuyome (10%)"]
      [] heat = 4 -> [pct |-> 500, label |-> "hyoujun (5%)"]
      [] heat = 3 -> [pct |-> 200, label |-> "shougaku (2%)"]
      [] heat = 2 -> [pct |-> 50, label |-> "saishou (0.5%)"]
      [] OTHER -> [pct |-> 0, label |-> "miokuri"]

\* heat_labels[final_heat]; a key the dict lacks raises KeyError
heat_labels(heat) ==
    CASE heat = 5 -> "5 fires chou-kou"
      [] heat = 4 -> "4 fires kou"
      [] heat = 3 -> "3 fires chuu"
      [] heat = 2 -> "2 fires tei"
      [] heat = 1 -> "1 fire yousumi"
      [] OTHER -> "KeyError"

base_heat_gt(total_score) ==
    IF total_score > 7500 THEN 5
    ELSE IF total_score > 6000 THEN 4
    ELSE IF total_score > 4500 THEN 3
    ELSE IF total_score > 3000 THEN 2
    ELSE 1

\* 1. the score band
base_heat(total_score) ==
    IF total_score >= 7500 THEN 5
    ELSE IF total_score >= 6000 THEN 4
    ELSE IF total_score >= 4500 THEN 3
    ELSE IF total_score >= 3000 THEN 2
    ELSE 1

base_reason(total_score) ==
    IF total_score >= 7500 THEN "score_very_high"
    ELSE IF total_score >= 6000 THEN "score_high"
    ELSE IF total_score >= 4500 THEN "score_medium"
    ELSE IF total_score >= 3000 THEN "score_lowish"
    ELSE "score_low"

\* 2. safety: safety_result.get("risk_level", "unknown")
risk_level_of(safety) == IF safety = Absent THEN "unknown" ELSE safety

safety_modifier_flat(risk_level) ==
    IF risk_level \in {"danger", "warning"} THEN -1 ELSE 0

\* expectation.py:83-93
safety_modifier(risk_level) ==
    IF risk_level = "danger" THEN -2
    ELSE IF risk_level = "warning" THEN -1
    ELSE 0

safety_reason(risk_level) ==
    IF risk_level = "danger" THEN <<"safety_danger">>
    ELSE IF risk_level = "warning" THEN <<"safety_warning">>
    ELSE IF risk_level = "safe" THEN <<"safety_ok">>
    ELSE <<>>

\* 3. mania: mania_scores.get("mania_total", 0), then the bot risk
mania_total_of_neutral(mania) == IF mania.has THEN mania.val ELSE 5000

\* expectation.py:98
mania_total_of(mania) == IF mania.has THEN mania.val ELSE 0

bot_risk_of(bot) == IF bot = Absent THEN "low" ELSE bot

mania_modifier(mania_total, bot_risk) ==
    (IF mania_total >= 7000 THEN 1 ELSE IF mania_total <= 2000 THEN -1 ELSE 0)
    + (IF bot_risk = "high" THEN -1 ELSE 0)

mania_reason_bot_first(mania_total, bot_risk) ==
    (IF bot_risk = "high" THEN <<"bot_suspected">> ELSE <<>>)
    \o (IF mania_total >= 7000 THEN <<"mania_bonus">>
        ELSE IF mania_total <= 2000 THEN <<"mania_penalty">>
        ELSE <<>>)

\* expectation.py:101-112, the entries appended
mania_reason(mania_total, bot_risk) ==
    (IF mania_total >= 7000 THEN <<"mania_bonus">>
     ELSE IF mania_total <= 2000 THEN <<"mania_penalty">>
     ELSE <<>>)
    \o (IF bot_risk = "high" THEN <<"bot_suspected">> ELSE <<>>)

\* 4. background: trust_score, None by default
trust_modifier(trust) ==
    IF ~trust.has THEN 0
    ELSE IF trust.val >= 7000 THEN 1
    ELSE IF trust.val <= 3000 THEN -1
    ELSE 0

trust_reason(trust) ==
    IF ~trust.has THEN <<>>
    ELSE IF trust.val >= 7000 THEN <<"trust_high">>
    ELSE IF trust.val <= 3000 THEN <<"trust_low">>
    ELSE <<>>

\* 5. market context: sol_price_trend, None by default
market_modifier(trend) ==
    IF trend = "bullish" THEN 1
    ELSE IF trend = "bearish" THEN -1
    ELSE 0

market_reason(trend) ==
    IF trend = "bullish" THEN <<"sol_bullish">>
    ELSE IF trend = "bearish" THEN <<"sol_bearish">>
    ELSE <<>>

final_heat_unclamped(sum) == sum

\* max(1, min(5, ...))
final_heat(sum) ==
    LET capped == IF sum < 5 THEN sum ELSE 5
    IN  IF capped > 1 THEN capped ELSE 1

\* the sample variance, (4Q - S^2) / 12, in place of the population variance
confidence_of_sample(f1, f2, f3, f4) ==
    LET S == f1 + f2 + f3 + f4
        Q == f1 * f1 + f2 * f2 + f3 * f3 + f4 * f4
        raw12 == 1200 - 15 * (4 * Q - S * S)
        capped12 == IF raw12 < 1200 THEN raw12 ELSE 1200
        conf12 == IF capped12 > 120 THEN capped12 ELSE 120
    IN  round_half_even(conf12 * 10, 12)

\* The confidence of four factors, in tenths. With S the sum of the factors
\* and Q the sum of their squares, the population variance is
\* (4Q - S^2) / 16, so 100 - variance * 15 is (1600 - 15 (4Q - S^2)) / 16.
confidence_of(f1, f2, f3, f4) ==
    LET S == f1 + f2 + f3 + f4
        Q == f1 * f1 + f2 * f2 + f3 * f3 + f4 * f4
        raw16 == 1600 - 15 * (4 * Q - S * S)
        capped16 == IF raw16 < 1600 THEN raw16 ELSE 1600
        conf16 == IF capped16 > 160 THEN capped16 ELSE 160
    IN  round_half_even(conf16 * 10, 16)

risk_reward_of(heat, risk_level) ==
    IF heat >= 4 /\ risk_level \in {"safe", "unknown"} THEN "high return, risk managed"
    ELSE IF heat >= 4 /\ risk_level = "warning" THEN "high risk, high return"
    ELSE IF heat <= 2 THEN "low return, higher risk"
    ELSE "standard risk and return"

calculate(in) ==
    LET risk_level == risk_level_of(in.safety)
        mania_total == mania_total_of(in.mania_total)
        bot_risk == bot_risk_of(in.bot_risk)
        base == base_heat(in.total_score)
        sm == safety_modifier(risk_level)
        mm == mania_modifier(mania_total, bot_risk)
        tm == trust_modifier(in.trust_score)
        km == market_modifier(in.sol_price_trend)
        heat == final_heat(base + sm + mm + tm + km)
        pos == POSITION_TABLE(heat)
    IN  [heat_level |-> heat,
         heat_label |-> heat_labels(heat),
         confidence |-> confidence_of(base, 3 + sm, 3 + mm, 3 + tm),
         position_pct |-> pos.pct,
         position_label |-> pos.label,
         risk_reward |-> risk_reward_of(heat, risk_level),
         reasoning |-> <<base_reason(in.total_score)>> \o safety_reason(risk_level)
                       \o mania_reason(mania_total, bot_risk) \o trust_reason(in.trust_score)
                       \o market_reason(in.sol_price_trend)]

\* The arguments tried: scores on both sides of every band, below 0 and above
\* 100; every risk level and none; mania totals and trust scores around their
\* thresholds and none; every bot risk and trend and none.
EvScores == {-500, 0, 2999, 3000, 4499, 4500, 5000, 5999, 6000, 7499, 7500, 8000, 12000}
EvRisk == {"danger", "warning", "safe", "unknown", Absent}
EvMania == {NoNumber} \cup {Number(v) : v \in {-100, 0, 1000, 2000, 2001, 6999, 7000, 7500}}
EvBot == {"low", "medium", "high", Absent}
EvTrust == {NoNumber} \cup {Number(v) : v \in {0, 3000, 3001, 6999, 7000}}
EvTrend == {"bullish", "bearish", "neutral", Absent}

EvInputs ==
    [total_score : EvScores, safety : EvRisk, mania_total : EvMania, bot_risk : EvBot,
     trust_score : EvTrust, sol_price_trend : EvTrend]

InitEV ==
    /\ InitStore
    /\ InitMoreIdle
    /\ InitBotIdle
    /\ InitCycleIdle
    /\ evIn \in EvInputs
    /\ evOut = Idle

Calculate ==
    /\ evOut = Idle
    /\ evOut' = calculate(evIn)
    /\ UNCHANGED <<evIn, storeVars, botVars, cycleVars, moreVars>>

NextEV == Calculate

SpecEV == InitEV /\ [][NextEV]_vars

\* ========================================================================
\* Claims about calculate, checked under SpecEV
\* ========================================================================
Called == evOut # Idle

\* C7: for every input, heat_level is an integer in 1..5 and confidence lies
\* in [10, 100].
C7_HeatAndConfidenceBounded ==
    Called =>
        /\ evOut.heat_level \in 1..5
        /\ evOut.confidence >= 100
        /\ evOut.confidence <= 1000

\* every modifier is +1 on a top-band score: the sum, 8, is clamped to 5
C7_Witness ==
    /\ Called
    /\ evIn.total_score >= 7500
    /\ evIn.mania_total.has /\ evIn.mania_total.val >= 7000
    /\ evIn.trust_score.has /\ evIn.trust_score.val >= 7000
    /\ evIn.sol_price_trend = "bullish"
    /\ evOut.heat_level = 5
    /\ evOut.confidence < 1000

\* C8: final heat is the five-band base heat plus the safety, mania, trust and
\* market modifiers, clamped to 1..5, an absent trust score or trend counting
\* 0, and the position is the fixed table's; (80, safe, mania 75) gives heat 5,
\* 10%, and (50, danger, mania 10) gives heat 1, 0%.
C8_Band(score) ==
    CASE score >= 7500 -> 5
      [] score < 7500 /\ score >= 6000 -> 4
      [] score < 6000 /\ score >= 4500 -> 3
      [] score < 4500 /\ score >= 3000 -> 2
      [] OTHER -> 1

C8_Modifiers(in) ==
    LET mt == IF in.mania_total.has THEN in.mania_total.val ELSE 0
    IN  (CASE in.safety = "danger" -> -2 [] in.safety = "warning" -> -1 [] OTHER -> 0)
        + (CASE mt >= 7000 -> 1 [] mt <= 2000 -> -1 [] OTHER -> 0)
        + (IF in.bot_risk = "high" THEN -1 ELSE 0)
        + (CASE ~in.trust_score.has -> 0
             [] in.trust_score.has /\ in.trust_score.val >= 7000 -> 1
             [] in.trust_score.has /\ in.trust_score.val <= 3000 -> -1
             [] OTHER -> 0)
        + (CASE in.sol_price_trend = "bullish" -> 1
             [] in.sol_price_trend = "bearish" -> -1
             [] OTHER -> 0)

C8_Clamp(x) == IF x < 1 THEN 1 ELSE IF x > 5 THEN 5 ELSE x

C8_Position(heat) ==
    <<0, 50, 200, 500, 1000>>[heat]

C8_Label(heat) ==
    <<"miokuri", "saishou (0.5%)", "shougaku (2%)", "hyoujun (5%)", "tsuyome (10%)">>[heat]

C8_NoExtras(in) ==
    /\ in.bot_risk \in {"low", Absent}
    /\ ~in.trust_score.has
    /\ in.sol_price_trend = Absent

C8_FinalHeatAndPosition ==
    Called =>
        /\ evOut.heat_level = C8_Clamp(C8_Band(evIn.total_score) + C8_Modifiers(evIn))
        /\ evOut.position_pct = C8_Position(evOut.heat_level)
        /\ evOut.position_label = C8_Label(evOut.heat_level)
        /\ (/\ evIn.total_score = 8000
            /\ evIn.safety = "safe"
            /\ evIn.mania_total = Number(7500)
            /\ C8_NoExtras(evIn))
           => /\ evOut.heat_level = 5
              /\ evOut.position_pct = 1000
              /\ evOut.position_label = "tsuyome (10%)"
        /\ (/\ evIn.total_score = 5000
            /\ evIn.safety = "danger"
            /\ evIn.mania_total = Number(1000)
            /\ C8_NoExtras(evIn))
           => /\ evOut.heat_level = 1
              /\ evOut.position_pct = 0
              /\ evOut.position_label = "miokuri"

\* the first scenario has been computed
C8_Witness ==
    /\ Called
    /\ evIn.total_score = 8000
    /\ evIn.safety = "safe"
    /\ evIn.mania_total = Number(7500)
    /\ C8_NoExtras(evIn)
    /\ evOut.heat_level = 5
    /\ evOut.position_label = "tsuyome (10%)"

\* the four entries of the consistency vector, from the arguments
C23_Factors(in) ==
    <<C8_Band(in.total_score),
      3 + (CASE in.safety = "danger" -> -2 [] in.safety = "warning" -> -1 [] OTHER -> 0),
      3 + (CASE in.mania_total.has /\ in.mania_total.val >= 7000 -> 1
             [] ~in.mania_total.has \/ in.mania_total.val <= 2000 -> -1
             [] OTHER -> 0)
        + (IF in.bot_risk = "high" THEN -1 ELSE 0),
      3 + (CASE in.trust_score.has /\ in.trust_score.val >= 7000 -> 1
             [] in.trust_score.has /\ in.trust_score.val <= 3000 -> -1
             [] OTHER -> 0)>>

\* 64 times the population variance of f: the mean is S / 4, so the squared
\* deviations sum to (sum of (4 f[i] - S)^2) / 16
C23_Variance64(f) ==
    LET S == f[1] + f[2] + f[3] + f[4]
    IN  (4 * f[1] - S) * (4 * f[1] - S) + (4 * f[2] - S) * (4 * f[2] - S)
        + (4 * f[3] - S) * (4 * f[3] - S) + (4 * f[4] - S) * (4 * f[4] - S)

\* clamp(100 - 15 V, 10, 100) in tenths, as a fraction over 64, rounded to
\* the nearest tenth (a tie to the even tenth)
C23_Confidence(f) ==
    LET raw == 64000 - 150 * C23_Variance64(f)
        clamped == IF raw > 64000 THEN 64000 ELSE IF raw < 6400 THEN 6400 ELSE raw
        low == clamped \div 64
        rest == clamped % 64
    IN  IF rest > 32 \/ (rest = 32 /\ low % 2 = 1) THEN low + 1 ELSE low

C23_AllEqual(f) == f[1] = f[2] /\ f[2] = f[3] /\ f[3] = f[4]

\* C23: confidence is clamp(100 - 15 V, 10, 100) rounded to one decimal, V
\* the population variance of [base_heat, 3 + safety_mod, 3 + mania_mod,
\* 3 + trust_mod]; it is 100 exactly when the four entries are equal and
\* lower otherwise, and the market trend does not change it.
C23_ConfidenceFromVariance ==
    Called =>
        /\ evOut.confidence = C23_Confidence(C23_Factors(evIn))
        /\ (evOut.confidence = 1000) <=> C23_AllEqual(C23_Factors(evIn))
        /\ evOut.confidence <= 1000
        /\ \A t \in EvTrend :
               calculate([evIn EXCEPT !.sol_price_trend = t]).confidence = evOut.confidence

\* entries 3, 3, 2, 2 under a rising market: variance 0.25, 96.25 rounds to 96.2
C23_Witness ==
    /\ Called
    /\ C23_Factors(evIn) = <<3, 3, 2, 2>>
    /\ evIn.sol_price_trend = "bullish"
    /\ evOut.confidence = 962

\* the entry of each decision, <<>> when the decision was not triggered
C25_BandEntry(in) ==
    <<"score_low", "score_lowish", "score_medium", "score_high", "score_very_high">>
        [C8_Band(in.total_score)]

C25_SafetyEntry(in) ==
    CASE in.safety = "danger" -> <<"safety_danger">>
      [] in.safety = "warning" -> <<"safety_warning">>
      [] in.safety = "safe" -> <<"safety_ok">>
      [] OTHER -> <<>>

C25_ManiaEntry(in) ==
    CASE in.mania_total.has /\ in.mania_total.val >= 7000 -> <<"mania_bonus">>
      [] ~in.mania_total.has \/ in.mania_total.val <= 2000 -> <<"mania_penalty">>
      [] OTHER -> <<>>

C25_BotEntry(in) == IF in.bot_risk = "high" THEN <<"bot_suspected">> ELSE <<>>

C25_TrustEntry(in) ==
    CASE in.trust_score.has /\ in.trust_score.val >= 7000 -> <<"trust_high">>
      [] in.trust_score.has /\ in.trust_score.val <= 3000 -> <<"trust_low">>
      [] OTHER -> <<>>

C25_MarketEntry(in) ==
    CASE in.sol_price_trend = "bullish" -> <<"sol_bullish">>
      [] in.sol_price_trend = "bearish" -> <<"sol_bearish">>
      [] OTHER -> <<>>

\* C25: the reasoning list has the score-band entry first, then the entries
\* of the triggered decisions in the order safety, mania, bot, trust, market
\* trend; every modifier that adds a non-zero amount to the heat has its
\* entry, and a decision that was not triggered has none.
C25_ReasoningInOrder ==
    Called =>
        /\ evOut.reasoning =
               <<C25_BandEntry(evIn)>> \o C25_SafetyEntry(evIn) \o C25_ManiaEntry(evIn)
               \o C25_BotEntry(evIn) \o C25_TrustEntry(evIn) \o C25_MarketEntry(evIn)
        /\ C23_Factors(evIn)[2] # 3 => C25_SafetyEntry(evIn) # <<>>
        /\ C23_Factors(evIn)[3] # 3 => C25_ManiaEntry(evIn) \o C25_BotEntry(evIn) # <<>>
        /\ C23_Factors(evIn)[4] # 3 => C25_TrustEntry(evIn) # <<>>
        /\ evIn.sol_price_trend \in {"bullish", "bearish"} => C25_MarketEntry(evIn) # <<>>

\* every decision was triggered: six entries, in evaluation order
C25_Witness ==
    /\ Called
    /\ evIn.bot_risk = "high"
    /\ evOut.reasoning = <<"score_high", "safety_warning", "mania_penalty", "bot_suspected",
                           "trust_high", "sol_bearish">>

\* the same arguments with a neutral mania_total
C29_Neutral(in, v) == [in EXCEPT !.mania_total = Number(v)]

\* the sum of base heat and modifiers before the clamp
C29_Sum(in) == C8_Band(in.total_score) + C8_Modifiers(in)

\* C29 as stated: without a mania_total calculate takes 0, the mania modifier
\* is -1, and the final heat is one lower than for the same arguments with a
\* neutral mania_total (21 or 69), unless it is clamped at 1.
C29_OneLowerUnlessOne ==
    (Called /\ ~evIn.mania_total.has)
        => \A v \in {2100, 6900} :
               /\ "mania_penalty" \in Range(evOut.reasoning)
               /\ C29_Sum(evIn) = C29_Sum(C29_Neutral(evIn, v)) - 1
               /\ \/ evOut.heat_level = calculate(C29_Neutral(evIn, v)).heat_level - 1
                  \/ evOut.heat_level = 1

\* C29 as amended: without a mania_total calculate takes 0 and the mania
\* modifier is -1; the final heat is one lower than for the same arguments
\* with a neutral mania_total, unless the clamp hides it: both are 1 when the
\* neutral sum is 1 or less, both are 5 when the neutral sum is 6 or more.
C29_OneLowerUnlessClamped ==
    (Called /\ ~evIn.mania_total.has)
        => \A v \in {2100, 6900} :
               LET neutral == calculate(C29_Neutral(evIn, v)).heat_level
                   S == C29_Sum(C29_Neutral(evIn, v))
               IN  /\ "mania_penalty" \in Range(evOut.reasoning)
                   /\ ~("mania_penalty" \in Range(calculate(C29_Neutral(evIn, v)).reasoning))
                   /\ C29_Sum(evIn) = S - 1
                   /\ evOut.heat_level =
                          (IF S <= 1 THEN 1 ELSE IF S >= 6 THEN 5 ELSE neutral - 1)
                   /\ S <= 1 => neutral = 1
                   /\ S >= 6 => neutral = 5

\* no mania scores, a mid-band score and a safe token: heat 2, where a
\* neutral mania_total gives 3
C29_Witness ==
    /\ Called
    /\ ~evIn.mania_total.has
    /\ evIn.bot_risk = Absent
    /\ evIn.total_score = 5000
    /\ evIn.safety = "safe"
    /\ ~evIn.trust_score.has
    /\ evIn.sol_price_trend = Absent
    /\ evOut.heat_level = 2
    /\ calculate(C29_Neutral(evIn, 2100)).heat_level = 3

\* ========================================================================
\* BotDetector.analyze (src/src/mania.py)
\*
\* twitter_raw holds the four counts; a count that is missing reads as its
\* default (followers 0, following 1, tweets 0, likes 0).
\* ========================================================================
\* 1. followers / following: nothing above 100 with more than 10000
\* followers, else +25 below 0.5 with more than 1000 followers
signal_ratio(followers, following) ==
    IF followers > 100 * following /\ followers > 10000 THEN 0
    ELSE IF 2 * followers < following /\ followers > 1000 THEN 25
    ELSE 0

signal_tweets_le(followers, tweets) ==
    IF followers > 5000 /\ tweets <= 10 THEN 30 ELSE 0

\* 2. many followers, hardly a tweet
signal_tweets(followers, tweets) ==
    IF followers > 5000 /\ tweets < 10 THEN 30 ELSE 0

signal_engagement_inverted(followers, tweets, likes) ==
    IF tweets > 0 /\ followers > 1000 /\ likes > tweets THEN 20 ELSE 0

\* 3. likes / tweets below 1, looked at only when there are tweets
signal_engagement(followers, tweets, likes) ==
    IF tweets > 0 /\ followers > 1000 /\ likes < tweets THEN 20 ELSE 0

\* len(s) - len(s.rstrip('0')) of the decimal digits of n > 0
RECURSIVE trailing_zeros(_)
trailing_zeros(n) == IF n % 10 = 0 THEN 1 + trailing_zeros(n \div 10) ELSE 0

\* 4. a round number of followers
signal_round(followers) ==
    IF followers > 500 /\ trailing_zeros(followers) >= 3 THEN 15 ELSE 0

analyze(raw) ==
    LET followers == raw.followers
        following == IF raw.following = 0 THEN 1 ELSE raw.following
        tweets == raw.tweets
        likes == raw.likes
        s1 == signal_ratio(followers, following)
        s2 == signal_tweets(followers, tweets)
        s3 == signal_engagement(followers, tweets, likes)
        s4 == signal_round(followers)
        bot_score == s1 + s2 + s3 + s4
    IN  IF followers = 0
        THEN [bot_risk |-> "low", bot_score |-> 0, indicators |-> <<>>]
        ELSE [bot_risk |-> IF bot_score >= 50 THEN "high"
                           ELSE IF bot_score >= 25 THEN "medium"
                           ELSE "low",
              bot_score |-> IF bot_score < 100 THEN bot_score ELSE 100,
              indicators |-> (IF s1 > 0 THEN <<"more_following_than_followers">> ELSE <<>>)
                             \o (IF s2 > 0 THEN <<"followers_without_tweets">> ELSE <<>>)
                             \o (IF s3 > 0 THEN <<"few_likes_per_tweet">> ELSE <<>>)
                             \o (IF s4 > 0 THEN <<"round_follower_count">> ELSE <<>>)]

\* The profiles tried: counts on both sides of every threshold
BotFollowers == {0, 400, 1000, 1001, 2000, 5000, 5001, 6000, 10000, 10001, 20000}
BotFollowing == {0, 1, 100, 200, 2002, 2003, 4000, 4001, 50000}
BotTweets == {0, 1, 5, 9, 10, 50}
BotLikes == {0, 1, 4, 5, 10, 50}

BotInputs ==
    [followers : BotFollowers, following : BotFollowing, tweets : BotTweets, likes : BotLikes]

InitBot ==
    /\ InitStore
    /\ InitMoreIdle
    /\ InitEVIdle
    /\ InitCycleIdle
    /\ botIn \in BotInputs
    /\ botOut = NotAnalyzed

Analyze ==
    /\ botOut = NotAnalyzed
    /\ botOut' = analyze(botIn)
    /\ UNCHANGED <<botIn, storeVars, evVars, cycleVars, moreVars>>

NextBot == Analyze

SpecBot == InitBot /\ [][NextBot]_vars

\* ========================================================================
\* Claims about analyze, checked under SpecBot
\* ========================================================================
Analyzed == botOut # NotAnalyzed

ScoreWith(raw) == analyze(raw).bot_score

C9_FewLikesPerTweet(raw) == raw.tweets > 0 /\ raw.followers > 1000 /\ raw.likes < raw.tweets

C18_OtherSignals(raw) ==
    (IF raw.followers > 5000 /\ raw.tweets < 10 THEN <<30>> ELSE <<>>)
    \o (IF raw.likes < raw.tweets /\ raw.followers > 1000 THEN <<20>> ELSE <<>>)
    \o (IF raw.followers > 500 /\ raw.followers % 1000 = 0 THEN <<15>> ELSE <<>>)

\* following / followers below 0.5
C18_FollowingToFollower(raw) ==
    IF 2 * raw.following < raw.followers /\ raw.followers > 1000 THEN <<25>> ELSE <<>>

\* followers / following below 0.5, a following of 0 counting as 1
C18_FollowerToFollowing(raw) ==
    LET following == IF raw.following = 0 THEN 1 ELSE raw.following
    IN  IF 2 * raw.followers < following /\ raw.followers > 1000 THEN <<25>> ELSE <<>>

RECURSIVE C18_Total(_)
C18_Total(weights) ==
    IF weights = <<>> THEN 0 ELSE Head(weights) + C18_Total(SubSeq(weights, 2, Len(weights)))

C18_Agrees(weights) ==
    /\ botOut.bot_score = Min(100, C18_Total(weights))
    /\ Len(botOut.indicators) = Len(weights)

\* C18 as stated: bot_score is min(100, sum of the weights of the triggered
\* signals) and the evidence list has one entry per triggered signal, the
\* +25 signal firing when following / followers is below 0.5 and followers
\* exceed 1000.
C18_SignalsAsStated ==
    (Analyzed /\ botIn.followers > 0)
        => C18_Agrees(C18_FollowingToFollower(botIn) \o C18_OtherSignals(botIn))

\* C18 as amended: the same, the +25 signal firing when followers / following
\* (a following of 0 counting as 1) is below 0.5 and followers exceed 1000.
C18_SignalsOfTheCode ==
    Analyzed => C18_Agrees(C18_FollowerToFollowing(botIn) \o C18_OtherSignals(botIn))

\* all four signals fire: 6000 followers, 50000 following, 5 tweets, 4 likes
C18_Witness ==
    /\ Analyzed
    /\ botIn.following > 2 * botIn.followers
    /\ botOut.bot_score = 90
    /\ Len(botOut.indicators) = 4
    /\ botOut.bot_risk = "high"

\* ========================================================================
\* run_screening_cycle (src/main.py)
\*
\* pc names the await the cycle is suspended in: "scan" (fetch_new_pairs),
\* "pumpfun" (graduations and their pairs), "enrich" (enrich_github), "score"
\* (score_projects), "mania" (enhance_scores), "safety" (check_multiple),
\* "broadcast" (hub.broadcast), "ev_post" (the expectation report). An action
\* is the return of that await together with the synchronous code up to the
\* next await or the return of the cycle.
\* ========================================================================
MaxCycles == 2

AwaitPcs == {"scan", "pumpfun", "enrich", "score", "mania", "safety", "broadcast", "ev_post"}

StoreNow == <<notified, history, diskState, diskHistory>>

ObsVars == <<lastOp, lastArg, lastRes, pre>>

StartCycle ==
    /\ pc \in {"idle", "done", "abandoned"}
    /\ cycles < MaxCycles
    /\ cycles' = cycles + 1
    /\ pc' = "scan"
    /\ snap' = StoreNow
    /\ failedAt' = "none"
    /\ top' = <<>>
    /\ newProjects' = <<>>
    /\ scoreChanges' = <<>>
    /\ UNCHANGED <<storeVars, evVars, botVars, moreVars>>

\* an await that returns into code that touches neither the store nor the
\* cycle's lists
Resume(from, to) ==
    /\ pc = from
    /\ pc' = to
    /\ UNCHANGED <<top, newProjects, scoreChanges, snap, failedAt, cycles>>
    /\ UNCHANGED <<storeVars, evVars, botVars, moreVars>>

CycleScan == Resume("scan", "pumpfun")

\* after the pump.fun step: return when there is no project, else enrich
CyclePumpfun == Resume("pumpfun", "done") \/ Resume("pumpfun", "enrich")

CycleEnrich == Resume("enrich", "score")

\* save_scan(top) alone
Step8SaveOnly(t, fresh) ==
    /\ history' = save_scan(history, t, now)
    /\ diskHistory' \in _save(diskHistory, dumps_history(history'), <<>>)
    /\ nScans' = nScans + 1
    /\ savedLog' = Append(savedLog, scan_record(t, now))
    /\ UNCHANGED <<notified, diskState, lastMark>>

\* Step 8: mark_notified(new_projects), then save_scan(top)
Step8(t, fresh) ==
    /\ notified' = mark_notified(notified, fresh, now)
    /\ diskState' \in _save(diskState, dumps_state(notified'), {})
    /\ lastMark' = MarkGhost(lastMark, fresh, now)
    /\ history' = save_scan(history, t, now)
    /\ diskHistory' \in _save(diskHistory, dumps_history(history'), <<>>)
    /\ nScans' = nScans + 1
    /\ savedLog' = Append(savedLog, scan_record(t, now))

Step4Marking(t) ==
    /\ scoreChanges' = get_score_changes(notified, t)
    /\ newProjects' = filter_new(notified, t, now)
    /\ IF newProjects' = <<>>
       THEN /\ history' = save_scan(history, t, now)
            /\ diskHistory' \in _save(diskHistory, dumps_history(history'), <<>>)
            /\ nScans' = nScans + 1
            /\ savedLog' = Append(savedLog, scan_record(t, now))
            /\ pc' = "done"
            /\ UNCHANGED <<notified, diskState, lastMark>>
       ELSE /\ pc' = "safety"
            /\ Step8(t, newProjects')

\* Step 4: get_score_changes and filter_new; nothing new: save_scan and return
Step4(t) ==
    /\ scoreChanges' = get_score_changes(notified, t)
    /\ newProjects' = filter_new(notified, t, now)
    /\ IF newProjects' = <<>>
       THEN /\ history' = save_scan(history, t, now)
            /\ diskHistory' \in _save(diskHistory, dumps_history(history'), <<>>)
            /\ nScans' = nScans + 1
            /\ savedLog' = Append(savedLog, scan_record(t, now))
            /\ pc' = "done"
            /\ UNCHANGED <<notified, diskState, lastMark>>
       ELSE /\ pc' = "safety"
            /\ UNCHANGED <<notified, history, diskState, diskHistory, lastMark,
                           nScans, savedLog>>

\* score_projects returns; with mania scoring enabled the cycle goes on to
\* enhance_scores, else straight into Step 4
CycleScore ==
    /\ pc = "score"
    /\ \E t \in ProjectLists :
           /\ top' = t
           /\ \/ /\ pc' = "mania"
                 /\ UNCHANGED <<newProjects, scoreChanges>>
                 /\ UNCHANGED <<notified, history, diskState, diskHistory, lastMark,
                                nScans, savedLog>>
              \/ Step4(t)
    /\ UNCHANGED <<snap, failedAt, cycles, now, ticks, ObsVars, evVars, botVars, moreVars>>

\* the same projects, rescored and sorted again
Rescored(t) == {u \in ProjectLists : Len(u) = Len(t) /\ KeysOf(u) = KeysOf(t)}

\* the last enhance_scores returns: the blended scores, the sort, then Step 4
CycleMania ==
    /\ pc = "mania"
    /\ \E t \in Rescored(top) :
           /\ top' = t
           /\ Step4(t)
    /\ UNCHANGED <<snap, failedAt, cycles, now, ticks, ObsVars, evVars, botVars, moreVars>>

CycleSafety == Resume("safety", "broadcast")

\* hub.broadcast returns: with Discord enabled the expectation report is
\* posted next, else Step 8 runs
CycleBroadcast ==
    \/ Resume("broadcast", "ev_post")
    \/ /\ pc = "broadcast"
       /\ Step8(top, newProjects)
       /\ pc' = "done"
       /\ UNCHANGED <<top, newProjects, scoreChanges, snap, failedAt, cycles>>
       /\ UNCHANGED <<now, ticks, ObsVars, evVars, botVars, moreVars>>

CycleEvPost ==
    /\ pc = "ev_post"
    /\ Step8(top, newProjects)
    /\ pc' = "done"
    /\ UNCHANGED <<top, newProjects, scoreChanges, snap, failedAt, cycles>>
    /\ UNCHANGED <<now, ticks, ObsVars, evVars, botVars, moreVars>>

\* the await raises (the cycle's except clause reports and returns None) or
\* the task is cancelled
CycleAbandon ==
    /\ pc \in AwaitPcs
    /\ failedAt' = pc
    /\ pc' = "abandoned"
    /\ UNCHANGED <<top, newProjects, scoreChanges, snap, cycles>>
    /\ UNCHANGED <<storeVars, evVars, botVars, moreVars>>

\* The scheduler starts the next cycle a dedup window after the last one
\* has completed.
CycleTick ==
    /\ pc = "done"
    /\ TickBy({DedupWindow})

NextCycle ==
    \/ CycleTick
    \/ StartCycle
    \/ CycleScan
    \/ CyclePumpfun
    \/ CycleEnrich
    \/ CycleScore
    \/ CycleMania
    \/ CycleSafety
    \/ CycleBroadcast
    \/ CycleEvPost
    \/ CycleAbandon

SpecCycle == Init /\ [][NextCycle]_vars

\* ========================================================================
\* Claims about the screening cycle, checked under SpecCycle
\* ========================================================================
\* C10: while a cycle is suspended in any await before Step 8, and when it
\* has been abandoned there, the notified map, the scan history and the two
\* files are what they were when the cycle started.
C10_NoWriteBeforeStep8 ==
    (pc \in AwaitPcs \/ pc = "abandoned") => StoreNow = snap

\* the second cycle is abandoned in hub.broadcast with new projects at hand,
\* the first cycle having notified something
C10_Witness ==
    /\ pc = "abandoned"
    /\ failedAt = "broadcast"
    /\ newProjects # <<>>
    /\ notified # {}
    /\ history # <<>>
    /\ StoreNow = snap

\* ========================================================================
\* run_daemon (src/main.py:356-401)
\*
\* The scheduler is started first; then the daemon awaits one
\* run_screening_cycle itself (the startup run). The jobs "morning" and
\* "interval" run the same coroutine as tasks of the same event loop; the
\* scheduler skips a firing of a job whose previous run has not returned
\* (max_instances is 1 for each job), and nothing else orders the three.
\* Each task has its own top and new_projects; the StateManager is the
\* module-level object they share.
\* ========================================================================
Job(j) == jobs[j]

Running(j) == Job(j).pc \in AwaitPcs

\* the await the task is suspended in lies between Step 4 and Step 8
InFlight(j) == Job(j).pc \in {"safety", "broadcast", "ev_post"}

JobAt(j, to) == jobs' = [jobs EXCEPT ![j].pc = to]

JobReturns(j, to) == jobs' = [jobs EXCEPT ![j] = [JobIdle EXCEPT !.pc = to]]

\* what a task leaves behind when it returns: the startup run is not repeated
Returned(j) == IF j = "startup" THEN "done" ELSE "idle"

\* await run_screening_cycle() of run_daemon
DaemonStartup ==
    /\ Job("startup").pc = "idle"
    /\ cycles < MaxCycles
    /\ cycles' = cycles + 1
    /\ JobAt("startup", "scan")
    /\ UNCHANGED <<storeVars, evVars, botVars>>
    /\ UNCHANGED <<pc, top, newProjects, scoreChanges, snap, failedAt>>
    /\ UNCHANGED <<boot, holderVars, safetyVars, proj, lateVars>>

\* the scheduler fires the job "morning" or "interval"
DaemonFire ==
    \E j \in JobIds \ {"startup"} :
        /\ Job("startup").pc # "idle"
        /\ Job(j).pc = "idle"
        /\ cycles < MaxCycles
        /\ cycles' = cycles + 1
        /\ JobAt(j, "scan")
        /\ UNCHANGED <<storeVars, evVars, botVars>>
        /\ UNCHANGED <<pc, top, newProjects, scoreChanges, snap, failedAt>>
        /\ UNCHANGED <<boot, holderVars, safetyVars, proj, lateVars>>

JobResume(j, from, to) ==
    /\ Job(j).pc = from
    /\ JobAt(j, to)
    /\ UNCHANGED <<storeVars, evVars, botVars, cycleVars>>
    /\ UNCHANGED <<boot, holderVars, safetyVars, proj, lateVars>>

JobReturn(j, from) ==
    /\ Job(j).pc = from
    /\ JobReturns(j, Returned(j))
    /\ UNCHANGED <<storeVars, evVars, botVars, cycleVars>>
    /\ UNCHANGED <<boot, holderVars, safetyVars, proj, lateVars>>

\* the awaits before Step 4 that touch neither the store nor the lists
JobFetch ==
    \E j \in JobIds :
        \/ JobResume(j, "scan", "pumpfun")
        \/ JobResume(j, "pumpfun", "enrich")
        \/ JobReturn(j, "pumpfun")
        \/ JobResume(j, "enrich", "score")

\* Step 4 of the task j on its list t: get_score_changes, filter_new, and
\* save_scan before the return when nothing is new
JobStep4(j, t) ==
    LET fresh == filter_new(notified, t, now)
    IN  /\ lastOp' = "filter_new"
        /\ lastArg' = t
        /\ lastRes' = fresh
        /\ pre' = notified
        /\ IF fresh = <<>>
           THEN /\ history' = save_scan(history, t, now)
                /\ diskHistory' \in _save(diskHistory, dumps_history(history'), <<>>)
                /\ nScans' = nScans + 1
                /\ savedLog' = Append(savedLog, scan_record(t, now))
                /\ JobReturns(j, Returned(j))
           ELSE /\ jobs' = [jobs EXCEPT ![j] =
                              [pc |-> "safety", top |-> t,
                               scoreChanges |-> get_score_changes(notified, t),
                               newProjects |-> fresh]]
                /\ UNCHANGED <<history, diskHistory, nScans, savedLog>>
        /\ UNCHANGED <<now, ticks, notified, diskState, lastMark>>
        /\ UNCHANGED <<evVars, botVars, cycleVars>>
        /\ UNCHANGED <<boot, holderVars, safetyVars, proj, lateVars>>

\* score_projects returns: on to enhance_scores, or straight into Step 4
JobScore ==
    \E j \in JobIds :
        /\ Job(j).pc = "score"
        /\ \E t \in ProjectLists :
               \/ /\ jobs' = [jobs EXCEPT ![j] = [JobIdle EXCEPT !.pc = "mania", !.top = t]]
                  /\ UNCHANGED <<storeVars, evVars, botVars, cycleVars>>
                  /\ UNCHANGED <<boot, holderVars, safetyVars, proj, lateVars>>
               \/ JobStep4(j, t)

JobMania ==
    \E j \in JobIds :
        /\ Job(j).pc = "mania"
        /\ \E t \in Rescored(Job(j).top) : JobStep4(j, t)

\* Step 8 of the task j
JobStep8(j) ==
    /\ Step8(Job(j).top, Job(j).newProjects)
    /\ lastOp' = "mark_notified"
    /\ lastArg' = Job(j).newProjects
    /\ lastRes' = None
    /\ pre' = notified
    /\ JobReturns(j, Returned(j))
    /\ UNCHANGED <<now, ticks>>
    /\ UNCHANGED <<evVars, botVars, cycleVars>>
    /\ UNCHANGED <<boot, holderVars, safetyVars, proj, lateVars>>

JobNotify ==
    \E j \in JobIds :
        \/ JobResume(j, "safety", "broadcast")
        \/ JobResume(j, "broadcast", "ev_post")
        \/ Job(j).pc = "broadcast" /\ JobStep8(j)
        \/ Job(j).pc = "ev_post" /\ JobStep8(j)

\* an await of the task raises: the except clause of the cycle returns None
JobAbandon ==
    \E j \in JobIds :
        /\ Running(j)
        /\ JobReturn(j, Job(j).pc)

NextDaemon ==
    \/ DaemonStartup
    \/ DaemonFire
    \/ JobFetch
    \/ JobScore
    \/ JobMania
    \/ JobNotify
    \/ JobAbandon

SpecDaemon == Init /\ [][NextDaemon]_vars

\* ========================================================================
\* Claims about daemon mode, checked under SpecDaemon
\* ========================================================================
\* C11: the store accesses of the cycles are serialized: no two tasks are
\* between their filter_new and their mark_notified at once, so no two of them
\* hold the same address in new_projects, each having passed it through
\* filter_new before the other has marked it.
C11_CyclesSerialized ==
    \A j \in JobIds : \A k \in JobIds \ {j} :
        InFlight(j) /\ InFlight(k)
            => KeysOf(Job(j).newProjects) \cap KeysOf(Job(k).newProjects) = {}

\* ========================================================================
\* Persistence across restarts (src/src/state.py:26-29, 132-146)
\* ========================================================================
MaxSaves == 2
MaxBoots == 2

\* the lists marked, saved and filtered here; 55.3 is a score with a decimal
PersistLists ==
    {<<[token_address |-> "a1", total_score |-> 5530]>>,
     <<[token_address |-> "a1", total_score |-> 5530],
       [token_address |-> "a2", total_score |-> 4000]>>}

\* StateManager._load: open() and json.load(); only FileNotFoundError and
\* JSONDecodeError are caught
LoadRaises(file) == file.kind = "unreadable"

_load_state(file) == IF file.kind = "json" THEN loads_state(file.doc) ELSE {}

_load_history(file) == IF file.kind = "json" THEN loads_history(file.doc) ELSE <<>>

Up == boot.status = "ok"

Lost == boot.write_failed \/ boot.damaged

\* the module is loaded again: state = StateManager() (src/main.py:53)
Restart ==
    /\ boot.boots < MaxBoots
    /\ IF LoadRaises(diskState) \/ LoadRaises(diskHistory)
       THEN /\ notified' = {}
            /\ history' = <<>>
            /\ boot' = [Booted(notified, history, Lost, boot.boots + 1) EXCEPT
                            !.status = "raised", !.damaged = TRUE,
                            !.writes = boot.writes]
       ELSE /\ notified' = _load_state(diskState)
            /\ history' = _load_history(diskHistory)
            /\ boot' = [Booted(notified, history, Lost, boot.boots + 1) EXCEPT
                            !.writes = boot.writes]
    /\ lastOp' = "restart"
    /\ lastArg' = <<>>
    /\ lastRes' = None
    /\ pre' = notified
    /\ lastMark' = [a \in Addrs |-> NeverMarked]
    /\ UNCHANGED <<now, ticks, diskState, diskHistory, nScans, savedLog>>
    /\ UNCHANGED <<evVars, botVars, cycleVars, jobs, holderVars, safetyVars, proj, lateVars>>

\* mark_notified; the write of the state file may fail
PersistMark ==
    /\ Up
    /\ boot.writes < MaxSaves
    /\ \E ps \in PersistLists :
           /\ notified' = mark_notified(notified, ps, now)
           /\ diskState' \in _save(diskState, dumps_state(notified'), {})
           /\ boot' = [boot EXCEPT !.writes = @ + 1, !.write_failed =
                          @ \/ diskState' # JsonFile(dumps_state(notified'))]
           /\ lastOp' = "mark_notified"
           /\ lastArg' = ps
           /\ lastRes' = None
           /\ pre' = notified
           /\ lastMark' = MarkGhost(lastMark, ps, now)
    /\ UNCHANGED <<now, ticks, history, diskHistory, nScans, savedLog>>
    /\ UNCHANGED <<evVars, botVars, cycleVars, jobs, holderVars, safetyVars, proj, lateVars>>

\* save_scan; the write of the history file may fail
PersistSaveScan ==
    /\ Up
    /\ boot.writes < MaxSaves
    /\ \E ps \in PersistLists :
           /\ history' = save_scan(history, ps, now)
           /\ diskHistory' \in _save(diskHistory, dumps_history(history'), <<>>)
           /\ boot' = [boot EXCEPT !.writes = @ + 1, !.write_failed =
                          @ \/ diskHistory' # JsonFile(dumps_history(history'))]
           /\ nScans' = nScans + 1
           /\ savedLog' = Append(savedLog, scan_record(ps, now))
           /\ lastOp' = "save_scan"
           /\ lastArg' = ps
           /\ lastRes' = None
           /\ pre' = notified
    /\ UNCHANGED <<now, ticks, notified, diskState, lastMark>>
    /\ UNCHANGED <<evVars, botVars, cycleVars, jobs, holderVars, safetyVars, proj, lateVars>>

PersistFilterNew ==
    /\ Up
    /\ \E ps \in PersistLists :
           /\ lastOp' = "filter_new"
           /\ lastArg' = ps
           /\ lastRes' = filter_new(notified, ps, now)
           /\ pre' = notified
    /\ UNCHANGED <<now, ticks, notified, history, diskState, diskHistory,
                   lastMark, nScans, savedLog>>
    /\ UNCHANGED nonStoreVars

PersistTick == Up /\ TickBy({1, DedupWindow - 1})

\* a day passes between two writes
PersistDay == Up /\ TickBy({DedupWindow})

\* between two runs a data file is deleted, cut short, or made unreadable
DamageFile ==
    /\ ~boot.damaged
    /\ boot.boots < MaxBoots
    /\ \/ /\ diskState' \in {MissingFile({}), CorruptFile({}), UnreadableFile({})}
          /\ UNCHANGED diskHistory
       \/ /\ diskHistory' \in {MissingFile(<<>>), CorruptFile(<<>>), UnreadableFile(<<>>)}
          /\ UNCHANGED diskState
    /\ boot' = [boot EXCEPT !.damaged = TRUE]
    /\ UNCHANGED <<now, ticks, notified, history, lastOp, lastArg, lastRes, pre,
                   lastMark, nScans, savedLog>>
    /\ UNCHANGED <<evVars, botVars, cycleVars, jobs, holderVars, safetyVars, proj, lateVars>>

\* one process whose writes may fail, observed through filter_new
NextWriteFail ==
    \/ PersistTick
    \/ PersistMark
    \/ PersistSaveScan
    \/ PersistFilterNew

SpecWriteFail == Init /\ [][NextWriteFail]_vars

\* processes that write, are stopped and are started again
NextPersist ==
    \/ PersistDay
    \/ PersistMark
    \/ PersistSaveScan
    \/ DamageFile
    \/ Restart

SpecPersist == Init /\ [][NextPersist]_vars

\* ========================================================================
\* Claims about persistence, checked under SpecPersist and SpecWriteFail
\* ========================================================================
\* C12: constructing StateManager never fails; a file that is missing, is no
\* valid JSON or cannot be read gives the empty default of its document.
C12_ConstructionNeverFails ==
    lastOp = "restart"
        => /\ boot.status = "ok"
           /\ diskState.kind # "json" => notified = {}
           /\ diskHistory.kind # "json" => history = <<>>

\* C13: whatever becomes of the file write, mark_notified and save_scan
\* return, every address of the marked list is in the notified map stamped
\* with the time of the call, filter_new drops every address this process
\* marked less than 24 hours ago, and the scan record is the last record of
\* the in-memory history.
C13_MemoryReflectsFailedWrites ==
    /\ Up
    /\ lastOp = "mark_notified"
           => /\ lastRes = None
              /\ \A a \in KeysOf(lastArg) :
                     /\ HasKey(notified, a)
                     /\ Get(notified, a).last_notified = isoformat(now)
    /\ lastOp = "filter_new"
           => \A i \in 1..Len(lastArg) :
                  MarkedWithin(lastArg[i].token_address, DedupWindow)
                      => lastArg[i] \notin Range(lastRes)
    /\ lastOp = "save_scan"
           => /\ lastRes = None
              /\ history # <<>>
              /\ history[Len(history)] = scan_record(lastArg, now)

\* the write of the state file failed at open, the write of the history file
\* failed part-way, and filter_new, some time after, still drops the two
\* marked projects
C13_Witness ==
    /\ lastOp = "filter_new"
    /\ boot.write_failed
    /\ diskState.kind = "missing"
    /\ diskHistory.kind = "corrupt"
    /\ Len(lastArg) = 2
    /\ lastRes = <<>>
    /\ \A a \in KeysOf(lastArg) : Marked(a) /\ now > lastMark[a].time
    /\ history # <<>>

\* C14: when no write has failed and no file was damaged since the store was
\* constructed, the store constructed next holds the notified map and the
\* scan history the process held before, and filter_new and
\* get_score_changes answer as they did.
C14_RestartRoundTrip ==
    (lastOp = "restart" /\ Up /\ ~boot.was_lost)
        => /\ notified = boot.notified
           /\ history = boot.history
           /\ \A ps \in PersistLists :
                  /\ filter_new(notified, ps, now) = filter_new(boot.notified, ps, now)
                  /\ get_score_changes(notified, ps) = get_score_changes(boot.notified, ps)

\* a restart after a successful mark_notified and a successful save_scan:
\* the map holds a score with a decimal and the history a record
C14_Witness ==
    /\ lastOp = "restart"
    /\ Up
    /\ ~boot.was_lost
    /\ \E e \in notified : e.score = 5530
    /\ history # <<>>
    /\ diskState.kind = "json"
    /\ diskHistory.kind = "json"

\* ========================================================================
\* SmartMoneyAnalyzer (src/src/mania.py:24-123)
\*
\* A fetch answers with kind "raise" (the request or the decoding of its
\* body raises), "status" (a status other than 200), "empty" (200 with a body
\* that carries no holder list) or "ok" (200 with the holder list `holders`).
\* A holder is its "amount"; its "owner" is its place in the list.
\* ========================================================================
MaxHolders == 21
MaxAmount == 5

\* the owners counted as smart money: the dict literal is empty
KNOWN_SMART_WALLETS == {}

TopHolders == 20

Response(kind, holders) == [kind |-> kind, holders |-> holders]

_get_holders_any_status(in) ==
    IF in.key /\ in.helius.kind \in {"ok", "status"}
    THEN in.helius.holders
    ELSE IF in.rugcheck.kind \in {"ok", "status"} THEN in.rugcheck.holders
    ELSE <<>>

\* Helius when a key is configured and it answers 200 with data, else the
\* topHolders of the RugCheck summary, else the empty list
_get_holders(in) ==
    IF in.key /\ in.helius.kind = "ok"
    THEN in.helius.holders
    ELSE IF in.rugcheck.kind = "ok" THEN in.rugcheck.holders
    ELSE <<>>

RECURSIVE SumTo(_, _)
SumTo(s, n) == IF n = 0 THEN 0 ELSE s[n] + SumTo(s, n - 1)

\* sum(...) of a list
sum(s) == SumTo(s, Len(s))

\* sorted(..., reverse=True)[0]
largest(s) == CHOOSE m \in Range(s) : \A x \in Range(s) : x <= m

\* holders[:20]
top_holders_of(holders) == SubSeq(holders, 1, Min(Len(holders), TopHolders))

dev_wallet_risk_of(top_holders, total_balance) ==
    IF total_balance > 0 /\ \E i \in 1..Len(top_holders) :
                                top_holders[i] * 100 > 30 * total_balance
    THEN "high" ELSE "unknown"

\* the step function on top1_pct = balances[0] / total_balance
holder_quality_of(top_holders, total_balance) ==
    IF total_balance > 0 /\ Len(top_holders) > 1
    THEN LET top1 == largest(top_holders)
         IN  IF 10 * top1 < total_balance THEN 90
             ELSE IF 10 * top1 < 2 * total_balance THEN 70
             ELSE IF 10 * top1 < 3 * total_balance THEN 50
             ELSE IF 10 * top1 < 5 * total_balance THEN 30
             ELSE 10
    ELSE 0

SmartMoneyAnalyzer_analyze(in) ==
    LET holders == _get_holders(in)
        top_holders == top_holders_of(holders)
        total_balance == sum(top_holders)
        smart_count == Cardinality({i \in 1..Len(top_holders) : i \in KNOWN_SMART_WALLETS})
    IN  IF holders = <<>>
        THEN [smart_money_score |-> 0, smart_money_count |-> 0,
              dev_wallet_risk |-> "unknown", holder_quality |-> 0]
        ELSE [smart_money_score |-> Min(100, smart_count * 25),
              smart_money_count |-> smart_count,
              dev_wallet_risk |-> dev_wallet_risk_of(top_holders, total_balance),
              holder_quality |-> holder_quality_of(top_holders, total_balance)]

\* Holder lists tried: n holders of the same amount but one, which stands
\* first or last
HolderList(n, pos, big, small) == [i \in 1..n |-> IF i = pos THEN big ELSE small]

HolderLists ==
    {HolderList(n, pos, big, small) :
        n \in 1..MaxHolders, pos \in {1, MaxHolders}, big \in 0..MaxAmount, small \in 0..2}

FewResponses ==
    {Response("raise", <<>>), Response("status", <<>>), Response("status", <<3, 1>>),
     Response("empty", <<>>), Response("ok", <<>>), Response("ok", <<2, 1, 1>>)}

Responses == FewResponses \cup {Response("ok", h) : h \in HolderLists}

HolderInputs ==
    [key : BOOLEAN, helius : FewResponses, rugcheck : Responses]
    \cup [key : {TRUE}, helius : Responses, rugcheck : FewResponses]

InitHolders ==
    /\ InitStore
    /\ InitEVIdle
    /\ InitBotIdle
    /\ InitCycleIdle
    /\ InitJobsIdle
    /\ InitBootIdle
    /\ InitSafetyIdle
    /\ InitProjectIdle
    /\ InitLateIdle
    /\ holdersIn \in HolderInputs
    /\ holdersOut = NoHolderResult

AnalyzeHolders ==
    /\ holdersOut = NoHolderResult
    /\ holdersOut' = SmartMoneyAnalyzer_analyze(holdersIn)
    /\ UNCHANGED <<holdersIn, storeVars, evVars, botVars, cycleVars>>
    /\ UNCHANGED <<jobs, boot, safetyVars, proj, lateVars>>

NextHolders == AnalyzeHolders

SpecHolders == InitHolders /\ [][NextHolders]_vars

\* ========================================================================
\* Claims about SmartMoneyAnalyzer, checked under SpecHolders
\* ========================================================================
HoldersAnalyzed == holdersOut # NoHolderResult

FetchFailed(r) == r.kind \in {"raise", "status"}

NoList(r) == r.kind = "empty" \/ (r.kind = "ok" /\ r.holders = <<>>)

\* both fetches fail, or the answer that is used carries no holder
C15_NoHolderData(in) ==
    \/ (~in.key \/ FetchFailed(in.helius)) /\ FetchFailed(in.rugcheck)
    \/ in.key /\ in.helius.kind = "ok" /\ in.helius.holders = <<>>
    \/ (~in.key \/ in.helius.kind # "ok") /\ NoList(in.rugcheck)

\* C15: with an empty or missing holder set, also when both fetches fail or
\* answer with a status other than 200, analyze returns the zero defaults.
C15_ZeroDefaults ==
    (HoldersAnalyzed /\ C15_NoHolderData(holdersIn))
        => holdersOut = [smart_money_score |-> 0, smart_money_count |-> 0,
                         dev_wallet_risk |-> "unknown", holder_quality |-> 0]

\* Helius answers 503 with a body that would parse to holders, RugCheck
\* raises: the defaults are returned
C15_Witness ==
    /\ HoldersAnalyzed
    /\ holdersIn.key
    /\ holdersIn.helius = Response("status", <<3, 1>>)
    /\ holdersIn.rugcheck.kind = "raise"
    /\ holdersOut.holder_quality = 0
    /\ holdersOut.dev_wallet_risk = "unknown"

\* the five buckets of the largest holder's share of the sampled total
C19_Bucket(top1, total) ==
    IF 100 * top1 < 10 * total THEN 90
    ELSE IF 100 * top1 < 20 * total THEN 70
    ELSE IF 100 * top1 < 30 * total THEN 50
    ELSE IF 100 * top1 < 50 * total THEN 30
    ELSE 10

\* C19: for every sampled holder set of 1 to 20 holders with a positive
\* total balance, holder_quality is the bucket of the largest holder's share.
C19_HolderQualityBuckets ==
    LET sampled == top_holders_of(_get_holders(holdersIn))
    IN  (HoldersAnalyzed /\ Len(sampled) >= 1 /\ sum(sampled) > 0)
            => holdersOut.holder_quality = C19_Bucket(largest(sampled), sum(sampled))

\* ========================================================================
\* SafetyChecker (src/src/safety.py)
\*
\* The RugCheck fetch answers with kind "raise", "status" (not 200) or "ok"
\* (200 with the JSON object `report`). Of a report: which of the keys
\* "score", "risks" and "topHolders" it has, its risks (of a risk: whether
\* its name contains "mint", whether it contains "lp", and its level) and the
\* pct of its top holders; its score counts as 0. A warning is its first
\* character: "red" or "yellow".
\* ========================================================================
MaxRisks == 2

Report(has_score, has_risks, risks, has_holders, holders) ==
    [has_score |-> has_score, has_risks |-> has_risks, risks |-> risks,
     has_holders |-> has_holders, topHolders |-> holders]

\* the JSON object {}
EmptyReport == Report(FALSE, FALSE, <<>>, FALSE, <<>>)

\* SafetyChecker._rugcheck: the body on status 200, else {}
_rugcheck(in) == IF in.kind = "ok" THEN in.report ELSE EmptyReport

truthy_not_none(report) == TRUE

\* `if rugcheck:` - a dict is true when it has a key
truthy(report) == report.has_score \/ report.has_risks \/ report.has_holders

\* the warnings of the loop over risks, in order
RECURSIVE risk_warnings(_, _)
risk_warnings(risks, i) ==
    IF i > Len(risks) THEN <<>>
    ELSE (IF risks[i].level \in {"danger", "critical"} THEN <<"red">>
          ELSE IF risks[i].level = "warn" THEN <<"yellow">>
          ELSE <<>>) \o risk_warnings(risks, i + 1)

mint_active_severe(risks) ==
    \E i \in 1..Len(risks) : risks[i].mint /\ risks[i].level \in {"danger", "critical"}

\* safety.py:65
mint_active(risks) == \E i \in 1..Len(risks) : risks[i].mint

lp_locked_of(risks) ==
    ~\E i \in 1..Len(risks) : risks[i].lp /\ risks[i].level \in {"danger", "critical"}

\* sum(h.get("pct", 0) for h in top_holders[:10])
total_pct_of(top_holders) == sum(SubSeq(top_holders, 1, Min(Len(top_holders), 10)))

holder_warnings(top_holders) ==
    IF top_holders = <<>> THEN <<>>
    ELSE IF total_pct_of(top_holders) > 50 THEN <<"red">>
    ELSE IF total_pct_of(top_holders) > 30 THEN <<"yellow">>
    ELSE <<>>

count(warnings, mark) == Cardinality({i \in 1..Len(warnings) : warnings[i] = mark})

risk_level_for_any_warn(warnings) ==
    IF count(warnings, "red") >= 2 THEN "danger"
    ELSE IF count(warnings, "red") >= 1 THEN "warning"
    ELSE IF count(warnings, "yellow") >= 1 THEN "warning"
    ELSE "safe"

\* safety.py:89-97
risk_level_for(warnings) ==
    IF count(warnings, "red") >= 2 THEN "danger"
    ELSE IF count(warnings, "red") >= 1 THEN "warning"
    ELSE IF count(warnings, "yellow") >= 2 THEN "warning"
    ELSE "safe"

check(in) ==
    LET rugcheck == _rugcheck(in)
        risks == rugcheck.risks
        warnings == risk_warnings(risks, 1)
                    \o (IF mint_active(risks) THEN <<"red">> ELSE <<>>)
                    \o (IF lp_locked_of(risks) THEN <<>> ELSE <<"red">>)
                    \o holder_warnings(rugcheck.topHolders)
    IN  IF truthy(rugcheck)
        THEN [is_safe |-> count(warnings, "red") < 2,
              risk_level |-> risk_level_for(warnings),
              warnings |-> warnings,
              rugcheck_score |-> Number(0),
              mint_authority |-> IF mint_active(risks) THEN "active" ELSE None,
              lp_locked |-> IF lp_locked_of(risks) THEN "True" ELSE "False",
              top_holders_pct |-> IF rugcheck.topHolders = <<>> THEN NoNumber
                                  ELSE Number(total_pct_of(rugcheck.topHolders))]
        ELSE [is_safe |-> TRUE, risk_level |-> "unknown", warnings |-> <<>>,
              rugcheck_score |-> NoNumber, mint_authority |-> None,
              lp_locked |-> None, top_holders_pct |-> NoNumber]

\* The reports tried
Risks == [mint : BOOLEAN, lp : BOOLEAN, level : {"danger", "critical", "warn", "info"}]

RiskLists == UNION {[1..n -> Risks] : n \in 0..MaxRisks}

PctLists == {<<>>, <<20>>, <<31>>, <<51>>, <<30, 20>>, <<30, 21>>,
             [i \in 1..11 |-> 5], [i \in 1..11 |-> 3]}

Reports ==
    {Report(sc, rk, IF rk THEN rs ELSE <<>>, hk, IF hk THEN hs ELSE <<>>) :
        sc \in BOOLEAN, rk \in BOOLEAN, rs \in RiskLists, hk \in BOOLEAN, hs \in PctLists}

SafetyInputs ==
    {[kind |-> "raise", report |-> EmptyReport], [kind |-> "status", report |-> EmptyReport]}
    \cup {[kind |-> "ok", report |-> r] : r \in Reports}

InitSafety ==
    /\ InitStore
    /\ InitEVIdle
    /\ InitBotIdle
    /\ InitCycleIdle
    /\ InitJobsIdle
    /\ InitBootIdle
    /\ InitHoldersIdle
    /\ InitProjectIdle
    /\ InitLateIdle
    /\ safetyIn \in SafetyInputs
    /\ safetyOut = NotChecked

Check ==
    /\ safetyOut = NotChecked
    /\ safetyOut' = check(safetyIn)
    /\ UNCHANGED <<safetyIn, storeVars, evVars, botVars, cycleVars>>
    /\ UNCHANGED <<jobs, boot, holderVars, proj, lateVars>>

NextSafety == Check

SpecSafety == InitSafety /\ [][NextSafety]_vars

\* ========================================================================
\* Claims about SafetyChecker, checked under SpecSafety
\* ========================================================================
Checked == safetyOut # NotChecked

\* no risk entry and no top-holder data
NoFindings(in) == in.kind # "ok" \/ (in.report.risks = <<>> /\ in.report.topHolders = <<>>)

\* no report, or the report {}
NoReportAtAll(in) ==
    in.kind # "ok" \/ ~(in.report.has_score \/ in.report.has_risks \/ in.report.has_holders)

\* C20 as stated: a raw report without findings, absent or fetched with an
\* empty findings list, gets risk_level "unknown".
C20_NoFindingsUnknown ==
    (Checked /\ NoFindings(safetyIn)) => safetyOut.risk_level = "unknown"

\* C20 as amended: an absent or empty raw report gets risk_level "unknown";
\* a report that was fetched and is not empty, without findings, gets "safe".
C20_UnknownOnlyWithoutReport ==
    (Checked /\ NoFindings(safetyIn))
        => IF NoReportAtAll(safetyIn)
           THEN safetyOut.risk_level = "unknown" /\ safetyOut.is_safe
                /\ safetyOut.warnings = <<>>
           ELSE safetyOut.risk_level = "safe" /\ safetyOut.is_safe
                /\ safetyOut.warnings = <<>>

\* the fetch answers 200 with {} and the level is "unknown"
C20_Witness ==
    /\ Checked
    /\ safetyIn.kind = "ok"
    /\ safetyIn.report = EmptyReport
    /\ safetyOut.risk_level = "unknown"

\* a report that was fetched and is not the object {}
NonEmptyReport(in) == in.kind = "ok" /\ ~NoReportAtAll(in)

Reds == Cardinality({i \in 1..Len(safetyOut.warnings) : safetyOut.warnings[i] = "red"})

Yellows == Cardinality({i \in 1..Len(safetyOut.warnings) : safetyOut.warnings[i] = "yellow"})

\* C21: for every non-empty report, risk_level follows from the counts of red
\* and yellow warnings of the returned warning list: two or more red give
\* "danger", exactly one red gives "warning", no red and two or more yellow
\* give "warning", anything else gives "safe"; and is_safe is false exactly
\* when risk_level is "danger".
C21_LevelFromCounts ==
    (Checked /\ NonEmptyReport(safetyIn))
        => /\ safetyOut.risk_level =
                (IF Reds >= 2 THEN "danger"
                 ELSE IF Reds = 1 THEN "warning"
                 ELSE IF Yellows >= 2 THEN "warning"
                 ELSE "safe")
           /\ (~safetyOut.is_safe) <=> (safetyOut.risk_level = "danger")

\* a report with no red and two yellow warnings was classified "warning"
C21_Witness ==
    /\ Checked
    /\ NonEmptyReport(safetyIn)
    /\ Reds = 0
    /\ Yellows = 2
    /\ safetyOut.risk_level = "warning"
    /\ safetyOut.is_safe

Severe(risk) == risk.level \in {"danger", "critical"}

\* the red warnings the findings of a report call for: one per severe
\* finding, one if some finding is named "mint", one if some severe finding
\* is named "lp"
LayeredReds(risks) ==
    Cardinality({i \in 1..Len(risks) : Severe(risks[i])})
    + (IF \E i \in 1..Len(risks) : risks[i].mint THEN 1 ELSE 0)
    + (IF \E i \in 1..Len(risks) : risks[i].lp /\ Severe(risks[i]) THEN 1 ELSE 0)

\* the report's only finding is one severe finding named "mint" or "lp"
SingleSevereNamed(in) ==
    /\ Len(in.report.risks) = 1
    /\ Severe(in.report.risks[1])
    /\ in.report.risks[1].mint \/ in.report.risks[1].lp
    /\ in.report.topHolders = <<>>

\* C22: the mint and LP rules come on top of the generic warnings: a finding
\* named "mint" adds a red warning whatever its level and a severe finding
\* named "lp" adds a red LP warning, besides the generic warning of the same
\* finding; so a report whose only finding is one severe finding named "mint"
\* or "lp" has two red warnings (three when the name has both words) and is
\* "danger"; and lp_locked is true exactly when no severe "lp" finding exists.
C22_MintAndLpLayered ==
    (Checked /\ NonEmptyReport(safetyIn))
        => LET risks == safetyIn.report.risks
           IN  /\ Reds >= LayeredReds(risks)
               /\ safetyIn.report.topHolders = <<>> => Reds = LayeredReds(risks)
               /\ (\E i \in 1..Len(risks) : risks[i].mint)
                      <=> safetyOut.mint_authority = "active"
               /\ (~\E i \in 1..Len(risks) : risks[i].lp /\ Severe(risks[i]))
                      <=> safetyOut.lp_locked = "True"
               /\ SingleSevereNamed(safetyIn)
                      => /\ safetyOut.risk_level = "danger"
                         /\ ~safetyOut.is_safe
                         /\ Reds = IF risks[1].mint /\ risks[1].lp THEN 3 ELSE 2

\* the only finding is one severe finding named "lp": two red warnings, "danger"
C22_Witness ==
    /\ Checked
    /\ NonEmptyReport(safetyIn)
    /\ SingleSevereNamed(safetyIn)
    /\ safetyIn.report.risks[1].lp
    /\ ~safetyIn.report.risks[1].mint
    /\ Reds = 2
    /\ safetyOut.risk_level = "danger"
    /\ safetyOut.lp_locked = "False"

\* ========================================================================
\* Step 3 and Step 6 of run_screening_cycle for one project p
\* (src/main.py:140-152, 167-178; ManiaScorer.enhance_scores,
\* src/src/mania.py:254-292)
\*
\* p.scores is a dict, here the set of its entries [key, num, bot_risk]: num
\* is the number stored under the key, in hundredths; bot_risk is, for the
\* key "_mania_raw", the bot_risk of the bot result stored there, and "" for
\* the other keys.
\* ========================================================================
Entry(key, num, bot_risk) == [key |-> key, num |-> num, bot_risk |-> bot_risk]

\* the characters of the keys and of the prefixes Step 6 looks for
Chars(str) ==
    CASE str = "_twitter_raw" -> <<"_", "t", "w", "i", "t", "t", "e", "r", "_", "r", "a", "w">>
      [] str = "_mania_raw" -> <<"_", "m", "a", "n", "i", "a", "_", "r", "a", "w">>
      [] str = "mania_total" -> <<"m", "a", "n", "i", "a", "_", "t", "o", "t", "a", "l">>
      [] str = "smart_money" -> <<"s", "m", "a", "r", "t", "_", "m", "o", "n", "e", "y">>
      [] str = "holder_quality" ->
             <<"h", "o", "l", "d", "e", "r", "_", "q", "u", "a", "l", "i", "t", "y">>
      [] str = "social_velocity" ->
             <<"s", "o", "c", "i", "a", "l", "_", "v", "e", "l", "o", "c", "i", "t", "y">>
      [] str = "bot_penalty" -> <<"b", "o", "t", "_", "p", "e", "n", "a", "l", "t", "y">>
      [] str = "mania" -> <<"m", "a", "n", "i", "a">>
      [] str = "smart" -> <<"s", "m", "a", "r", "t">>
      [] str = "holder" -> <<"h", "o", "l", "d", "e", "r">>
      [] str = "social" -> <<"s", "o", "c", "i", "a", "l">>
      [] str = "bot" -> <<"b", "o", "t">>

\* str.startswith(prefix)
startswith(str, prefix) ==
    /\ Len(Chars(prefix)) <= Len(Chars(str))
    /\ SubSeq(Chars(str), 1, Len(Chars(prefix))) = Chars(prefix)

\* the keys Step 6 keeps
Step6Prefixes == {"mania", "smart", "holder", "social", "bot"}

\* mania_scores of Step 6: the dict comprehension over p.scores.items()
mania_scores_of(scores) ==
    {e \in scores : \E prefix \in Step6Prefixes : startswith(e.key, prefix)}

\* dict.get of a number
get_num(d, key) ==
    IF \E e \in d : e.key = key THEN Number((CHOOSE e \in d : e.key = key).num)
    ELSE NoNumber

\* mania_scores.get("_mania_raw", {}).get("bot", {}).get("bot_risk"): the
\* argument of calculate's bot check, Absent when the key is not there
get_bot_risk(d) ==
    IF \E e \in d : e.key = "_mania_raw"
    THEN (CHOOSE e \in d : e.key = "_mania_raw").bot_risk
    ELSE Absent

\* dict.update
update(d, ms) == {e \in d : ~\E m \in ms : m.key = e.key} \cup ms

\* the bot part taken from 100 instead of 50
mania_total_from_100(smart_money, holder_quality, social_velocity, bot_penalty) ==
    LET bot_part == IF 10000 + bot_penalty > 0 THEN 10000 + bot_penalty ELSE 0
    IN  10 * round_half_even(
                 2 * smart_money + 3 * holder_quality + 3 * social_velocity + 2 * bot_part,
                 100)

\* mania_total of enhance_scores, in hundredths, rounded to one decimal
mania_total_from(smart_money, holder_quality, social_velocity, bot_penalty) ==
    LET bot_part == IF 5000 + bot_penalty > 0 THEN 5000 + bot_penalty ELSE 0
    IN  10 * round_half_even(
                 2 * smart_money + 3 * holder_quality + 3 * social_velocity + 2 * bot_part,
                 100)

\* ManiaScorer.enhance_scores: the dict it returns, given the results of the
\* three analyzers (velocity_score in hundredths)
enhance_scores(smart_money_result, velocity_score, bot_result) ==
    LET smart_money == 100 * smart_money_result.smart_money_score
        holder_quality == 100 * smart_money_result.holder_quality
        bot_penalty == -30 * bot_result.bot_score
    IN  {Entry("smart_money", smart_money, ""),
         Entry("holder_quality", holder_quality, ""),
         Entry("social_velocity", velocity_score, ""),
         Entry("bot_penalty", bot_penalty, ""),
         Entry("_mania_raw", 0, bot_result.bot_risk),
         Entry("mania_total",
               mania_total_from(smart_money, holder_quality, velocity_score, bot_penalty),
               "")}

\* round(p.total_score * 0.8 + mt * 0.2, 1), in hundredths
blend(total_score, mt) == 10 * round_half_even(8 * total_score + 2 * mt, 100)

\* The projects, profiles, holder answers and velocities tried
Step3Projects ==
    [total_score : {3000, 6200, 8000},
     scores : {{Entry("_twitter_raw", 0, "")}},
     step : {"scored"}]

Step3Profiles ==
    {[followers |-> 0, following |-> 0, tweets |-> 0, likes |-> 0],
     [followers |-> 2000, following |-> 100, tweets |-> 50, likes |-> 50],
     [followers |-> 2000, following |-> 4001, tweets |-> 50, likes |-> 50],
     [followers |-> 6000, following |-> 100, tweets |-> 5, likes |-> 0],
     [followers |-> 6000, following |-> 50000, tweets |-> 5, likes |-> 4]}

Step3Holders ==
    [key : {FALSE}, helius : {Response("raise", <<>>)},
     rugcheck : {Response("raise", <<>>), Response("ok", <<1, 1, 1, 1, 1, 1, 1, 1, 1, 1, 1>>),
                 Response("ok", <<5, 1>>)}]

Step3Velocities == {0, 5000, 10000}

InitStep3 ==
    /\ InitStore
    /\ InitEVIdle
    /\ InitCycleIdle
    /\ InitJobsIdle
    /\ InitBootIdle
    /\ InitSafetyIdle
    /\ botIn \in Step3Profiles
    /\ botOut = NotAnalyzed
    /\ holdersIn \in Step3Holders
    /\ holdersOut = NoHolderResult
    /\ proj \in Step3Projects
    /\ InitLateIdle

\* Step 3 for p: enhance_scores, p.scores.update(ms), the blended total_score
Step3Enhance ==
    /\ proj.step = "scored"
    /\ \E velocity_score \in Step3Velocities :
           LET ms == enhance_scores(SmartMoneyAnalyzer_analyze(holdersIn), velocity_score,
                                    analyze(botIn))
               mt == get_num(ms, "mania_total").val
           IN  proj' = [total_score |-> blend(proj.total_score, mt),
                        scores |-> update(proj.scores, ms),
                        step |-> "enhanced"]
    /\ holdersOut' = SmartMoneyAnalyzer_analyze(holdersIn)
    /\ botOut' = analyze(botIn)
    /\ UNCHANGED <<botIn, holdersIn, storeVars, evVars, cycleVars, jobs, boot, safetyVars, lateVars>>

\* Step 3 is switched off (config.enable_mania_scoring), or enhance_scores
\* raises and the except clause passes
Step3Skip ==
    /\ proj.step = "scored"
    /\ proj' = [proj EXCEPT !.step = "skipped"]
    /\ UNCHANGED <<botVars, holderVars, storeVars, evVars, cycleVars, jobs, boot, safetyVars, lateVars>>

\* Step 6 for p: the call of expectation.calculate
Step6 ==
    /\ proj.step \in {"enhanced", "skipped"}
    /\ \E risk_level \in {"danger", "warning", "safe", "unknown"} :
           LET mania_scores == mania_scores_of(proj.scores)
           IN  evIn' = [total_score |-> proj.total_score,
                        safety |-> risk_level,
                        mania_total |-> get_num(mania_scores, "mania_total"),
                        bot_risk |-> get_bot_risk(mania_scores),
                        trust_score |-> NoNumber,
                        sol_price_trend |-> Absent]
    /\ evOut' = calculate(evIn')
    /\ proj' = [proj EXCEPT !.step = "valued"]
    /\ UNCHANGED <<botVars, holderVars, storeVars, cycleVars, jobs, boot, safetyVars, lateVars>>

NextStep6 ==
    \/ Step3Enhance
    \/ Step3Skip
    \/ Step6

SpecStep6 == InitStep3 /\ [][NextStep6]_vars

\* ========================================================================
\* Claims about Step 3 and Step 6, checked under SpecStep6
\* ========================================================================
\* C16: a candidate whose bot analysis gave bot risk "high" has that bot risk
\* among the arguments of calculate, which takes the additional -1 and gives
\* the bot reasoning entry.
C16_BotRiskReachesCalculate ==
    (proj.step = "valued" /\ Analyzed /\ botOut.bot_risk = "high")
        => /\ evIn.bot_risk = "high"
           /\ "bot_suspected" \in Range(evOut.reasoning)

\* C27: with the empty smart-wallet list the smart_money score is 0 and the
\* mania_total that enhance_scores returns is at most 67, so calculate never
\* applies the mania bonus (mania_total >= 70) to a candidate of the cycle.
C27_ManiaBonusNeverApplied ==
    /\ (proj.step \in {"enhanced", "valued"} /\ holdersOut # NoHolderResult)
           => /\ get_num(proj.scores, "smart_money") = Number(0)
              /\ get_num(proj.scores, "mania_total").has
              /\ get_num(proj.scores, "mania_total").val <= 6700
    /\ proj.step = "valued"
           => /\ evIn.mania_total.has => evIn.mania_total.val < 7000
              /\ ~("mania_bonus" \in Range(evOut.reasoning))

\* a candidate with the highest mania_total, 67, has been valued
C27_Witness ==
    /\ proj.step = "valued"
    /\ evIn.mania_total = Number(6700)
    /\ holdersOut.holder_quality = 90
    /\ holdersOut.smart_money_score = 0

\* C28: in the screening cycle a candidate whose risk level is "danger" gets
\* a final heat of at most 3 and a recommended position of at most 2%: the
\* cycle passes neither a trust score nor a market trend, and its mania
\* modifier is never positive.
C28_DangerCapsHeat ==
    proj.step = "valued"
        => /\ ~evIn.trust_score.has
           /\ evIn.sol_price_trend = Absent
           /\ ~("mania_bonus" \in Range(evOut.reasoning))
           /\ ~(\E r \in {"trust_high", "trust_low", "sol_bullish", "sol_bearish"} :
                    r \in Range(evOut.reasoning))
           /\ evIn.safety = "danger"
                  => /\ evOut.heat_level <= 3
                     /\ evOut.position_pct <= 200

\* a top-band candidate with a neutral mania_total and risk level "danger":
\* heat 3, position 2%
C28_Witness ==
    /\ proj.step = "valued"
    /\ evIn.safety = "danger"
    /\ evIn.total_score >= 7500
    /\ evOut.heat_level = 3
    /\ evOut.position_pct = 200

\* ========================================================================
\* Cycles that run to completion one after the other, seen from the store
\* (src/main.py:154-160, 201-203). Between Step 4 and Step 8 a cycle only
\* awaits, so with one cycle at a time its store accesses are those of Step 4
\* followed, when something is new, by those of Step 8.
\* ========================================================================
MaxRuns == 3

RetentionLists ==
    {<<[token_address |-> "a1", total_score |-> 4000]>>,
     <<[token_address |-> "a2", total_score |-> 4000]>>}

\* one hour, or 6 days 23 hours, pass between two cycles
RetentionTick == TickBy({3600, Retention - 3600})

\* a cycle from Step 4 to its return; the files are written
RunCycle ==
    /\ nScans < MaxRuns
    /\ \E t \in RetentionLists :
           LET fresh == filter_new(notified, t, now)
           IN  /\ notified' = IF fresh = <<>> THEN notified
                              ELSE mark_notified(notified, fresh, now)
               /\ diskState' = IF fresh = <<>> THEN diskState
                               ELSE _save_written(dumps_state(notified'))
               /\ lastMark' = IF fresh = <<>> THEN lastMark
                              ELSE MarkGhost(lastMark, fresh, now)
               /\ history' = save_scan(history, t, now)
               /\ diskHistory' = _save_written(dumps_history(history'))
               /\ nScans' = nScans + 1
               /\ savedLog' = Append(savedLog, scan_record(t, now))
               /\ lastOp' = "cycle"
               /\ lastArg' = t
               /\ lastRes' = fresh
               /\ pre' = notified
    /\ UNCHANGED <<now, ticks>>
    /\ UNCHANGED nonStoreVars

NextRetention ==
    \/ RetentionTick
    \/ RunCycle

SpecRetention == Init /\ [][NextRetention]_vars

\* ========================================================================
\* Claims about retention, checked under SpecRetention
\* ========================================================================
\* C17 as stated: after every cycle that completes, also one in which nothing
\* was new and only save_scan ran, the notified map holds no record older
\* than 7 days.
C17_SweepOnEveryWrite ==
    lastOp = "cycle" => \A e \in notified : Age(e) <= Retention

\* C17 as amended: after a cycle that completes with something new, the
\* notified map holds no record aged 7 days or more; a cycle in which nothing
\* was new leaves the notified map as it was.
C17_SweepOnEveryMark ==
    lastOp = "cycle"
        => IF lastRes # <<>>
           THEN \A e \in notified : Age(e) < Retention
           ELSE notified = pre

\* a cycle with something new drops a record that had passed 7 days
C17_Witness ==
    /\ lastOp = "cycle"
    /\ lastRes # <<>>
    /\ \E e \in pre : /\ now - fromisoformat(e.last_notified) > Retention
                      /\ ~HasKey(notified, e.addr)

\* ========================================================================
\* Step 3 of run_screening_cycle over the whole top list
\* (src/main.py:138-152)
\*
\* A candidate is [rank, primary, total_score, mt]: its place in the list
\* that Step 2 returned, the total_score Step 2 gave it, its total_score
\* now and the mania_total that enhance_scores returned for it (none while
\* it has not, or when it raised). Scores are in hundredths.
\* ========================================================================
MaxTop == 3

Candidate(rank, primary) ==
    [rank |-> rank, primary |-> primary, total_score |-> primary, mt |-> NoNumber]

\* the place of x in a descending list, behind the elements that equal it
RECURSIVE insert_before_equal(_, _)
insert_before_equal(sorted, x) ==
    IF sorted = <<>> THEN <<x>>
    ELSE IF Head(sorted).total_score > x.total_score
         THEN <<Head(sorted)>> \o insert_before_equal(Tail(sorted), x)
         ELSE <<x>> \o sorted

RECURSIVE insert(_, _)
insert(sorted, x) ==
    IF sorted = <<>> THEN <<x>>
    ELSE IF Head(sorted).total_score >= x.total_score
         THEN <<Head(sorted)>> \o insert(Tail(sorted), x)
         ELSE <<x>> \o sorted

RECURSIVE sort_ties_reversed(_, _)
sort_ties_reversed(list, n) ==
    IF n = 0 THEN <<>> ELSE insert_before_equal(sort_ties_reversed(list, n - 1), list[n])

\* top.sort(key=lambda x: x.total_score, reverse=True) of the first n
\* elements: list.sort is stable, also with reverse=True
RECURSIVE sort(_, _)
sort(list, n) ==
    IF n = 0 THEN <<>> ELSE insert(sort(list, n - 1), list[n])

\* The lists and the mania totals tried: what enhance_scores can return for
\* the holder qualities, velocities and bot scores below
TopScores == {5000, 6000, 6005}

TopLists ==
    UNION {{[i \in 1..n |-> Candidate(i, f[i])] : f \in [1..n -> TopScores]} : n \in 1..MaxTop}

ManiaTotals ==
    {mania_total_from(0, 100 * hq, v, -30 * b) : hq \in {0, 90}, v \in {0, 10000},
                                                b \in {0, 90}}

InitTop ==
    /\ InitStore
    /\ InitEVIdle
    /\ InitBotIdle
    /\ InitCycleIdle
    /\ InitJobsIdle
    /\ InitBootIdle
    /\ InitHoldersIdle
    /\ InitSafetyIdle
    /\ InitProjectIdle
    /\ mon = NoMonitor
    /\ \E t \in TopLists : cand = [list |-> t, i |-> 1, phase |-> "step2"]

UnchangedButCand ==
    UNCHANGED <<storeVars, evVars, botVars, cycleVars, jobs, boot, holderVars, safetyVars,
                proj, mon>>

\* config.enable_mania_scoring is off: Step 3 is not run
TopNoMania ==
    /\ cand.phase = "step2"
    /\ cand' = [cand EXCEPT !.phase = "off"]
    /\ UnchangedButCand

\* line 141-143: Step 3 begins
TopBegin ==
    /\ cand.phase = "step2"
    /\ cand' = [cand EXCEPT !.phase = "loop"]
    /\ UnchangedButCand

\* lines 146-149 for the candidate at i: enhance_scores returns ms
TopEnhance ==
    /\ cand.phase = "loop"
    /\ cand.i <= Len(cand.list)
    /\ \E mt \in ManiaTotals :
           cand' = [cand EXCEPT
                       !.list[cand.i].total_score = blend(cand.list[cand.i].total_score, mt),
                       !.list[cand.i].mt = Number(mt),
                       !.i = cand.i + 1]
    /\ UnchangedButCand

\* lines 150-151 for the candidate at i: enhance_scores raises, pass
TopRaise ==
    /\ cand.phase = "loop"
    /\ cand.i <= Len(cand.list)
    /\ cand' = [cand EXCEPT !.i = cand.i + 1]
    /\ UnchangedButCand

\* line 152, after the loop
TopSort ==
    /\ cand.phase = "loop"
    /\ cand.i > Len(cand.list)
    /\ cand' = [cand EXCEPT !.list = sort(cand.list, Len(cand.list)), !.phase = "sorted"]
    /\ UnchangedButCand

NextTop ==
    \/ TopNoMania
    \/ TopBegin
    \/ TopEnhance
    \/ TopRaise
    \/ TopSort

SpecTop == InitTop /\ [][NextTop]_vars

\* ========================================================================
\* Claims about Step 3, checked under SpecTop
\* ========================================================================
\* 0.8 * primary + 0.2 * mt to one decimal: within 0.05 of the exact value
C24_Blended(c) ==
    /\ c.mt.has
    /\ c.total_score % 10 = 0
    /\ 10 * c.total_score - (8 * c.primary + 2 * c.mt.val) <= 50
    /\ (8 * c.primary + 2 * c.mt.val) - 10 * c.total_score <= 50

\* descending by total_score, equal scores in the order Step 2 gave them
C24_SortedStable(list) ==
    \A i, j \in 1..Len(list) :
        i < j => \/ list[i].total_score > list[j].total_score
                 \/ /\ list[i].total_score = list[j].total_score
                    /\ list[i].rank < list[j].rank

\* C24 as stated: after the mania step every candidate of the top list has
\* total_score = 0.8 * primary + 0.2 * mania_total rounded to one decimal,
\* and the list is sorted by it, descending, equal scores in their original
\* order.
C24_EveryCandidateBlended ==
    cand.phase = "sorted"
        => /\ \A k \in 1..Len(cand.list) : C24_Blended(cand.list[k])
           /\ C24_SortedStable(cand.list)

\* C24 as amended: after the mania step every candidate for which
\* enhance_scores returned has total_score = 0.8 * primary + 0.2 *
\* mania_total rounded to one decimal, a candidate for which it raised keeps
\* its primary score, and the list is sorted by the resulting score,
\* descending, equal scores in their original order.
C24_BlendedUnlessRaised ==
    cand.phase = "sorted"
        => /\ \A k \in 1..Len(cand.list) :
                  IF cand.list[k].mt.has THEN C24_Blended(cand.list[k])
                  ELSE cand.list[k].total_score = cand.list[k].primary
           /\ C24_SortedStable(cand.list)
           /\ {cand.list[k].rank : k \in 1..Len(cand.list)} = 1..Len(cand.list)

\* three candidates: one was blended past an earlier one, two end with equal
\* scores and keep their order
C24_Witness ==
    /\ cand.phase = "sorted"
    /\ Len(cand.list) = 3
    /\ \A k \in 1..3 : cand.list[k].mt.has
    /\ \E i, j \in 1..3 : i < j /\ cand.list[i].rank > cand.list[j].rank
    /\ \E i, j \in 1..3 : /\ i < j
                          /\ cand.list[i].total_score = cand.list[j].total_score
                          /\ cand.list[i].primary # cand.list[j].primary

\* ========================================================================
\* Screening cycles one after the other, with time passing between them and
\* while a cycle awaits its broadcast (src/main.py:154-206)
\* ========================================================================
\* a second passes while hub.broadcast runs; 24 hours, or a second less, pass
\* between the end of a cycle and the next one
DedupTick ==
    \/ pc = "broadcast" /\ TickBy({1})
    \/ pc \in {"done", "abandoned"} /\ TickBy({DedupWindow - 1, DedupWindow})

\* the lists Step 2 hands over, and file writes that succeed
DedupLists ==
    {<<[token_address |-> "a1", total_score |-> 4000]>>,
     <<[token_address |-> "a1", total_score |-> 5500],
       [token_address |-> "a2", total_score |-> 4000]>>}

WritesSucceed ==
    /\ notified' # notified => diskState' = JsonFile(dumps_state(notified'))
    /\ history' # history => diskHistory' = JsonFile(dumps_history(history'))

NextDedup ==
    \/ DedupTick
    \/ StartCycle
    \/ CycleScan
    \/ CyclePumpfun
    \/ CycleEnrich
    \/ CycleScore /\ top' \in DedupLists /\ WritesSucceed
    \/ CycleMania /\ top' = top /\ WritesSucceed
    \/ CycleSafety
    \/ CycleBroadcast /\ WritesSucceed
    \/ CycleEvPost /\ WritesSucceed
    \/ CycleAbandon

SpecDedup == Init /\ [][NextDedup]_vars

\* ========================================================================
\* Claims about the dedup window across cycles, checked under SpecDedup
\* ========================================================================
\* the cycle has passed new_projects to hub.broadcast and has not yet marked
Broadcasting(at) == at \in {"broadcast", "ev_post"}

\* C26: with cycles that do not overlap, every address passed to the
\* broadcast of a cycle that completes is marked notified by that cycle, at
\* the time of its Step 8, and an address is passed to a broadcast only if no
\* cycle has marked it or its latest mark is 24 hours old or older.
C26_OncePerWindow ==
    [][/\ Broadcasting(pc')
          => \A a \in KeysOf(newProjects') :
                 Marked(a)' => now' - lastMark'[a].time >= DedupWindow
       /\ (Broadcasting(pc) /\ pc' = "done")
          => \A a \in KeysOf(newProjects) :
                 /\ HasKey(notified', a)
                 /\ fromisoformat(Get(notified', a).last_notified) = now
                 /\ lastMark'[a].time = now]_vars

\* a second cycle broadcasts a1 again, 24 hours after the first cycle marked it
C26_Witness ==
    /\ cycles = 2
    /\ Broadcasting(pc)
    /\ "a1" \in KeysOf(newProjects)
    /\ Marked("a1")
    /\ now - lastMark["a1"].time = DedupWindow

\* ========================================================================
\* LiquidityMonitor and its use in run_realtime_monitor
\* (src/src/monitors.py:161-250, src/main.py:236-244)
\*
\* WATCH_TOKENS is the list `env` of the process. The upstream answers a
\* check with kind "raise" (the request raises), "status" (not 200),
\* "nopairs" (200 without pairs) or "ok" (200, the first pair's liquidity is
\* `usd`). prev_liquidity is a dict, here the set of its entries
\* [token, usd]. An alert is [type, token, prev, current, idx], idx the place
\* in watch_tokens of the check that raised it.
\* ========================================================================
MaxMonitorRuns == 2

NoAlert == [type |-> "none", token |-> "", prev |-> 0, current |-> 0, idx |-> 0]

\* a baseline of 10000 for a token not yet seen
prev_of_baseline(prev_liquidity, token) ==
    IF \E e \in prev_liquidity : e.token = token
    THEN (CHOOSE e \in prev_liquidity : e.token = token).usd
    ELSE 10000

\* self.prev_liquidity.get(token_address): -1 stands for None
prev_of(prev_liquidity, token) ==
    IF \E e \in prev_liquidity : e.token = token
    THEN (CHOOSE e \in prev_liquidity : e.token = token).usd
    ELSE -1

\* the alert of lines 219-245, change_pct = (current - prev) / prev * 100
alert_of(token, prev, current, idx) ==
    IF prev = -1 \/ prev = 0 THEN NoAlert
    ELSE IF 2 * current <= prev
         THEN [type |-> IF current < 1000 THEN "removed" ELSE "drop", token |-> token,
               prev |-> prev, current |-> current, idx |-> idx]
    ELSE IF 5 * current <= 4 * prev
         THEN [type |-> "drop", token |-> token, prev |-> prev, current |-> current,
               idx |-> idx]
    ELSE IF current >= 2 * prev
         THEN [type |-> "surge", token |-> token, prev |-> prev, current |-> current,
               idx |-> idx]
    ELSE NoAlert

\* LiquidityMonitor._check_token: the dict afterwards and the alert returned
_check_token(prev_liquidity, token, answer, idx) ==
    IF answer.kind = "ok"
    THEN [prev_liquidity |-> {e \in prev_liquidity : e.token # token}
                             \cup {[token |-> token, usd |-> answer.usd]},
          alert |-> alert_of(token, prev_of(prev_liquidity, token), answer.usd, idx)]
    ELSE [prev_liquidity |-> prev_liquidity, alert |-> NoAlert]

\* The watch lists and the upstream answers tried
WatchLists == {<<"t1">>, <<"t1", "t2">>, <<"t1", "t1">>}

LiquidityAnswers ==
    {[kind |-> k, usd |-> 0] : k \in {"raise", "status", "nopairs"}}
    \cup {[kind |-> "ok", usd |-> u] : u \in {0, 500, 4000, 10000}}

InitMonitor ==
    /\ InitStore
    /\ InitEVIdle
    /\ InitBotIdle
    /\ InitCycleIdle
    /\ InitJobsIdle
    /\ InitBootIdle
    /\ InitHoldersIdle
    /\ InitSafetyIdle
    /\ InitProjectIdle
    /\ cand = NoCandidates
    /\ \E w \in WatchLists : mon = [NoMonitor EXCEPT !.watch_tokens = w]

UnchangedButMon ==
    UNCHANGED <<storeVars, evVars, botVars, cycleVars, jobs, boot, holderVars, safetyVars,
                proj, cand>>

\* main.py:237: a run constructs its LiquidityMonitor, whose prev_liquidity
\* is empty; `seen` keeps what the monitor of the run before had recorded
MonitorRun ==
    /\ mon.phase \in {"idle", "returned"}
    /\ mon.runs < MaxMonitorRuns
    /\ mon' = [mon EXCEPT !.prev_liquidity = {}, !.i = 1, !.alerts = <<>>,
                          !.phase = "checking", !.runs = mon.runs + 1,
                          !.seen = mon.prev_liquidity]
    /\ UnchangedButMon

\* check_all, one turn of its loop
CheckToken ==
    /\ mon.phase = "checking"
    /\ mon.i <= Len(mon.watch_tokens)
    /\ \E answer \in LiquidityAnswers :
           LET res == _check_token(mon.prev_liquidity, mon.watch_tokens[mon.i], answer, mon.i)
           IN  mon' = [mon EXCEPT !.prev_liquidity = res.prev_liquidity,
                                  !.alerts = IF res.alert = NoAlert THEN mon.alerts
                                             ELSE Append(mon.alerts, res.alert),
                                  !.i = mon.i + 1]
    /\ UnchangedButMon

\* check_all returns its alerts to the run
MonitorReturn ==
    /\ mon.phase = "checking"
    /\ mon.i > Len(mon.watch_tokens)
    /\ mon' = [mon EXCEPT !.phase = "returned"]
    /\ UnchangedButMon

NextMonitor ==
    \/ MonitorRun
    \/ CheckToken
    \/ MonitorReturn

SpecMonitor == InitMonitor /\ [][NextMonitor]_vars

\* ========================================================================
\* Claims about the liquidity monitor, checked under SpecMonitor
\* ========================================================================
WatchDistinct ==
    \A i, j \in 1..Len(mon.watch_tokens) :
        i # j => mon.watch_tokens[i] # mon.watch_tokens[j]

====
